---- MODULE Spec2Model ----
(***************************************************************************)
(* Model of dbt's manifest loader (core/dbt/parser/manifest.py): the       *)
(* partial-parse cache gate (matching_parse_results, read_saved_manifest), *)
(* the per-file reuse decision (parse_with_cache, _get_cached), the load   *)
(* sequence of get_full_manifest and the reference-resolution passes.      *)
(***************************************************************************)
EXTENDS Integers, Sequences, FiniteSets, TLC

VARIABLES
    config,             \* the invocation: flags, args, profiles.yml, dbt_project.yml per package
    content,            \* the project tree on disk: file -> text
    artifact,           \* target/partial_parse.pickle on disk
    pc,                 \* position of the running operation
    manifest,           \* ManifestLoader.manifest
    old_manifest,       \* ManifestLoader.old_manifest
    mpr,                \* outcome of the last matching_parse_results call
    loaded_file_cache,  \* ManifestLoader._loaded_file_cache: search key -> block
    todo,               \* the paths the running search() loop has still to yield
    pkg,                \* index in Packages of the project load() is parsing
    trace,              \* what this run did: parse_file calls, cache copies, passes, reads
    returned,           \* the manifest get_full_manifest handed to its caller
    prev,               \* the result of the run before this one, and whether anything changed since
    hist              \* runs and changes made so far

vars == <<config, content, artifact, pc, manifest, old_manifest, mpr,
          loaded_file_cache, todo, pkg, trace, returned, prev, hist>>

----------------------------------------------------------------------------
(* Bounds *)

\* hash values of vars, profile and package declaration files are 1..MaxHash
MaxHash == 2

Hashes == 1..MaxHash

----------------------------------------------------------------------------
(* Values *)

None == [kind |-> "none"]

\* from dbt.version import __version__
CurrentVersion == 2

\* the packages of a run (all_projects), in the order supplied
Packages == <<"root", "dep", "lib">>

PackageNames == {Packages[i] : i \in 1..Len(Packages)}

\* manifest.metadata.dbt_version of a manifest: a version string, a value of
\* another type, or an attribute that is not there (AttributeError)
VersionTag(v) == [kind |-> "version", v |-> v]

MalformedTag == [kind |-> "malformed"]

MissingTag == [kind |-> "missing"]

\* ManifestStateCheck(vars_hash, profile_hash, project_hashes)
ManifestStateCheck(v, p, ph) ==
    [kind |-> "state_check", vars_hash |-> v, profile_hash |-> p, project_hashes |-> ph]

\* an unpickled state_check object that is truthy but lacks the attributes
MalformedStateCheck == [kind |-> "malformed"]

\* project_hashes: a dict package name -> hash
ProjectHashDicts == UNION {[S -> Hashes] : S \in SUBSET PackageNames}

StateChecks ==
    {ManifestStateCheck(v, p, ph) : v \in Hashes, p \in Hashes, ph \in ProjectHashDicts}

\* what each logger.debug call of matching_parse_results reports
NoLog ==
    [malformed |-> FALSE, version |-> FALSE, vars |-> FALSE, profile |-> FALSE,
     missing |-> {}, mismatch |-> {}]

Outcome(result, raised, log) == [result |-> result, raised |-> raised, log |-> log]

----------------------------------------------------------------------------
(* matching_parse_results *)

\* the keys of the current project_hashes that the persisted dict lacks
missing_keys(new, old) == {k \in DOMAIN new : k \notin DOMAIN old}

\* the keys present in both dicts whose hashes differ
mismatched_keys(new, old) == {k \in DOMAIN new : k \in DOMAIN old /\ new[k] # old[k]}

\* mutant: the missing-package check dropped
HashChecks_NoMissing(mine, theirs) ==
    LET varsBad == mine.vars_hash # theirs.vars_hash
        profBad == mine.profile_hash # theirs.profile_hash
        bad == mismatched_keys(mine.project_hashes, theirs.project_hashes)
    IN  Outcome(~(varsBad \/ profBad \/ bad # {}), FALSE,
                [NoLog EXCEPT !.vars = varsBad, !.profile = profBad, !.mismatch = bad])

\* mutant: the package dicts compared for equality, both directions
HashChecks_Symmetric(mine, theirs) ==
    LET varsBad == mine.vars_hash # theirs.vars_hash
        profBad == mine.profile_hash # theirs.profile_hash
        miss == missing_keys(mine.project_hashes, theirs.project_hashes)
        bad == mismatched_keys(mine.project_hashes, theirs.project_hashes)
        differ == mine.project_hashes # theirs.project_hashes
    IN  Outcome(~(varsBad \/ profBad \/ differ), FALSE,
                [NoLog EXCEPT !.vars = varsBad, !.profile = profBad,
                              !.missing = miss, !.mismatch = bad])

\* mutant: return False at the first failing check
HashChecks_ShortCircuit(mine, theirs) ==
    LET varsBad == mine.vars_hash # theirs.vars_hash
        profBad == mine.profile_hash # theirs.profile_hash
        miss == missing_keys(mine.project_hashes, theirs.project_hashes)
        bad == mismatched_keys(mine.project_hashes, theirs.project_hashes)
    IN  IF varsBad THEN Outcome(FALSE, FALSE, [NoLog EXCEPT !.vars = TRUE])
        ELSE IF profBad THEN Outcome(FALSE, FALSE, [NoLog EXCEPT !.profile = TRUE])
        ELSE IF miss # {} THEN Outcome(FALSE, FALSE, [NoLog EXCEPT !.missing = miss])
        ELSE Outcome(bad = {}, FALSE, [NoLog EXCEPT !.mismatch = bad])

\* lines 267-300: valid starts True; each of the four hash checks that fails
\* logs and clears it; no check returns early
HashChecks(mine, theirs) ==
    LET varsBad == mine.vars_hash # theirs.vars_hash
        profBad == mine.profile_hash # theirs.profile_hash
        miss == missing_keys(mine.project_hashes, theirs.project_hashes)
        bad == mismatched_keys(mine.project_hashes, theirs.project_hashes)
    IN  Outcome(~(varsBad \/ profBad \/ miss # {} \/ bad # {}), FALSE,
                [NoLog EXCEPT !.vars = varsBad, !.profile = profBad,
                              !.missing = miss, !.mismatch = bad])

\* mutant: only an older persisted version is rejected
VersionRejected_OlderOnly(tag, version) ==
    tag.kind # "version" \/ tag.v < version

\* line 257: manifest.metadata.dbt_version != __version__
VersionRejected(tag, version) ==
    tag # VersionTag(version)

\* matching_parse_results(self, manifest), with __version__ = version and
\* self.manifest.state_check = mine
matching_parse_results(version, mine, m) ==
    IF m.dbt_version = MissingTag
    THEN \* except AttributeError
         Outcome(FALSE, FALSE, [NoLog EXCEPT !.malformed = TRUE])
    ELSE IF VersionRejected(m.dbt_version, version)
    THEN Outcome(FALSE, FALSE, [NoLog EXCEPT !.version = TRUE])
    ELSE IF mine = None \/ m.state_check = None
    THEN Outcome(FALSE, FALSE, NoLog)
    ELSE IF m.state_check.kind # "state_check"
    THEN \* AttributeError on manifest.state_check.vars_hash, outside the try
         Outcome(FALSE, TRUE, NoLog)
    ELSE HashChecks(mine, m.state_check)

----------------------------------------------------------------------------
(* Specification SpecMatch: matching_parse_results applied to every pair of  *)
(* a current state check and a persisted manifest.                          *)

PersistedTags ==
    {MissingTag, MalformedTag}
        \cup {VersionTag(v) : v \in (CurrentVersion - 1)..(CurrentVersion + 1)}

\* a persisted manifest as far as matching_parse_results reads it
PersistedHeads ==
    [kind : {"manifest"}, dbt_version : PersistedTags,
     state_check : {None, MalformedStateCheck} \cup StateChecks]

InitMatch ==
    /\ config = None
    /\ content = None
    /\ old_manifest = None
    /\ mpr = None
    /\ loaded_file_cache = None
    /\ todo = <<>>
    /\ pkg = 0
    /\ trace = None
    /\ returned = None
    /\ prev = None
    /\ hist = None
    /\ pc = "call"
    /\ \E sc \in {None} \cup StateChecks :
          manifest = [kind |-> "manifest", state_check |-> sc]
    /\ artifact \in PersistedHeads

CallMatching ==
    /\ pc = "call"
    /\ mpr' = matching_parse_results(CurrentVersion, manifest.state_check, artifact)
    /\ pc' = "returned"
    /\ UNCHANGED <<config, content, artifact, manifest, old_manifest,
                   loaded_file_cache, todo, pkg, trace, returned, prev, hist>>

NextMatch == CallMatching

SpecMatch == InitMatch /\ [][NextMatch]_vars

----------------------------------------------------------------------------
(* The project tree: two packages, their files, and what the per-kind      *)
(* parsers (external collaborators) make of each file text.                *)

EmptyMap == [x \in {} |-> x]

\* _parser_types, by class name, in list order
ParserTypes ==
    <<"ModelParser", "SnapshotParser", "AnalysisParser", "DataTestParser",
      "HookParser", "SeedParser", "DocumentationParser", "SchemaParser">>

\* parser.resource_type
ResourceType(cls) ==
    CASE cls = "ModelParser" -> "model"
      [] cls = "SnapshotParser" -> "snapshot"
      [] cls = "AnalysisParser" -> "analysis"
      [] cls = "DataTestParser" -> "test"
      [] cls = "HookParser" -> "operation"
      [] cls = "SeedParser" -> "seed"
      [] cls = "DocumentationParser" -> "docs"
      [] cls = "SchemaParser" -> "test"
      [] cls = "MacroParser" -> "macro"

\* every file of the tree, in the order a search lists them: the files of the
\* root package by their path in it, those of package dep likewise or, for the
\* file that has the path of a file of the root package, with the package's
\* directory in front
FileOrder == <<"m.sql", "a.sql", "b.sql", "s.yml", "x.sql", "dep/m.sql">>

Files == {FileOrder[i] : i \in 1..Len(FileOrder)}

FilePackage(f) == IF f \in {"x.sql", "dep/m.sql"} THEN "dep" ELSE "root"

\* the files whose path in their package is that of a file of another package
Twins == {"dep/m.sql"}

\* the parsers whose search() finds the file (x.sql lies under a directory that
\* is both a model path and an analysis path of its package)
FileParsers(f) ==
    CASE f = "m.sql" -> {"MacroParser"}
      [] f = "a.sql" -> {"ModelParser"}
      [] f = "b.sql" -> {"ModelParser"}
      [] f = "s.yml" -> {"SchemaParser"}
      [] f = "x.sql" -> {"ModelParser", "AnalysisParser"}
      [] f = "dep/m.sql" -> {"MacroParser"}

\* the texts a file can hold; "absent" is a file that is not on disk
Texts(f) ==
    CASE f = "m.sql" -> {"v1"}
      [] f = "a.sql" -> {"v1", "v2"}
      [] f = "b.sql" -> {"v1", "v2"}
      [] f = "s.yml" -> {"v1", "v2"}
      [] f = "x.sql" -> {"v1", "v2", "absent"}
      [] f = "dep/m.sql" -> {"v1", "absent"}

\* the declared dependency packages of a package, in declaration order
Dependencies(p) == IF p = "root" THEN <<"dep", "lib">> ELSE <<>>

\* FileHash.from_contents: a digest, taken to be collision-free
FileHash(contents) == [name |-> "sha256", checksum |-> contents]

\* a parsed node as the parsers leave it: no edges, description not rendered
ParsedNode(id, type, pkgname, name, raw, refs, sources) ==
    [unique_id |-> id, resource_type |-> type, package_name |-> pkgname, name |-> name,
     raw_sql |-> raw, refs |-> refs, sources |-> sources,
     depends_on |-> <<>>, enabled |-> TRUE, description |-> "raw",
     schema |-> "analytics", alias |-> name]

SourceDefinition(id, pkgname, source_name, name, raw) ==
    [unique_id |-> id, resource_type |-> "source", package_name |-> pkgname,
     source_name |-> source_name, name |-> name, raw |-> raw,
     patched |-> FALSE, description |-> "raw"]

ParsedMacro(id, pkgname, name, raw) ==
    [unique_id |-> id, resource_type |-> "macro", package_name |-> pkgname, name |-> name,
     macro_sql |-> raw, description |-> "raw"]

NoResources == [nodes |-> <<>>, sources |-> <<>>, macros |-> <<>>]

\* parser.parse_file(block) of the parser class cls: the resources it inserts,
\* in insertion order
ParseFile(cls, f, text) ==
    CASE f = "m.sql" ->
           [NoResources EXCEPT !.macros = <<ParsedMacro("macro.root.M", "root", "M", text)>>]
      [] f = "a.sql" ->
           [NoResources EXCEPT !.nodes =
               <<ParsedNode("model.root.A", "model", "root", "A", text, <<>>,
                            IF text = "v2" THEN << <<"raw", "events">> >> ELSE <<>>)>>]
      [] f = "b.sql" ->
           [NoResources EXCEPT !.nodes =
               <<ParsedNode("model.root.B", "model", "root", "B", text,
                            IF text = "v2" THEN << <<"dep", "X">> >> ELSE << <<"A">> >>,
                            <<>>)>>]
      [] f = "s.yml" ->
           [NoResources EXCEPT
               !.sources = <<SourceDefinition("source.root.raw.events", "root",
                                              "raw", "events", text)>>,
               !.nodes =
                   <<ParsedNode("test.root.T1", "test", "root", "T1", text,
                                << <<"A">> >>, <<>>)>>
                   \o (IF text = "v1"
                       THEN <<ParsedNode("test.root.T2", "test", "root", "T2", text,
                                         << <<"B">> >>, <<>>)>>
                       ELSE <<>>)]
      [] f = "x.sql" /\ cls = "ModelParser" ->
           [NoResources EXCEPT !.nodes =
               <<[ParsedNode("model.dep.X", "model", "dep", "X", text, <<>>, <<>>)
                     EXCEPT !.alias = IF text = "v2" THEN "B" ELSE @]>>]
      [] f = "x.sql" /\ cls = "AnalysisParser" ->
           [NoResources EXCEPT !.nodes =
               <<ParsedNode("analysis.dep.X", "analysis", "dep", "X", text, <<>>, <<>>)>>]
      [] f = "dep/m.sql" ->
           [NoResources EXCEPT !.macros = <<ParsedMacro("macro.dep.M", "dep", "M", text)>>]

Range(seq) == {seq[i] : i \in 1..Len(seq)}

Ids(seq) == {seq[i].unique_id : i \in 1..Len(seq)}

----------------------------------------------------------------------------
(* The Manifest (dbt.contracts.graph.manifest): the operations the loader  *)
(* calls on it.                                                            *)

\* ManifestLoader.__init__: Manifest({}, {}, {}, {}, {}, {}, [], {}) with the
\* metadata of the root project and the state check of this run
EmptyManifest(version, state_check) ==
    [kind |-> "manifest", dbt_version |-> VersionTag(version), state_check |-> state_check,
     nodes |-> EmptyMap, node_order |-> <<>>, sources |-> EmptyMap, macros |-> EmptyMap,
     exposures |-> EmptyMap, exposure_order |-> <<>>,
     files |-> EmptyMap, _disabled |-> EmptyMap, disabled |-> <<>>]

EmptyFile(checksum) == [checksum |-> checksum, nodes |-> {}, sources |-> {}, macros |-> {}]

\* a dict with the records of seq added under their unique ids
WithAll(map, seq) ==
    [id \in DOMAIN map \cup Ids(seq) |->
        IF id \in Ids(seq)
        THEN (CHOOSE r \in Range(seq) : r.unique_id = id)
        ELSE map[id]]

\* the ids of seq that map does not hold yet, in the order of seq
NewIds(map, seq) ==
    LET ids == [i \in 1..Len(seq) |-> seq[i].unique_id]
    IN  SelectSeq(ids, LAMBDA id : id \notin DOMAIN map)

\* add_node / add_source / add_macro for every resource of res, each recorded
\* in the file's entry of manifest.files
AddResources(m, key, checksum, res) ==
    LET file == IF key \in DOMAIN m.files THEN m.files[key] ELSE EmptyFile(checksum)
        file2 == [file EXCEPT !.nodes = @ \cup Ids(res.nodes),
                              !.sources = @ \cup Ids(res.sources),
                              !.macros = @ \cup Ids(res.macros)]
    IN  [m EXCEPT !.nodes = WithAll(@, res.nodes),
                  !.node_order = @ \o NewIds(m.nodes, res.nodes),
                  !.sources = WithAll(@, res.sources),
                  !.macros = WithAll(@, res.macros),
                  !.files = [k \in DOMAIN @ \cup {key} |-> IF k = key THEN file2 ELSE @[k]]]

\* Manifest.has_file: the file's key is indexed and its checksum is the same
has_file(m, block) ==
    /\ block.key \in DOMAIN m.files
    /\ m.files[block.key].checksum = block.checksum

\* the members of a finite set, in some order
SeqOf(S) ==
    CHOOSE q \in [1..Cardinality(S) -> S] : \A i, j \in DOMAIN q : i # j => q[i] # q[j]

\* Manifest.sanitized_update: copy forward every resource the old manifest
\* records for the file (nodes: those of the parser's resource type)
sanitized_update(m, block, old, resource_type) ==
    LET oldfile == old.files[block.key]
        nodeIds == SelectSeq(old.node_order,
                             LAMBDA id : /\ id \in oldfile.nodes
                                         /\ old.nodes[id].resource_type = resource_type)
        srcIds == SeqOf(oldfile.sources)
        macIds == SeqOf(oldfile.macros)
        res == [nodes |-> [i \in 1..Len(nodeIds) |-> old.nodes[nodeIds[i]]],
                sources |-> [i \in 1..Len(srcIds) |-> old.sources[srcIds[i]]],
                macros |-> [i \in 1..Len(macIds) |-> old.macros[macIds[i]]]]
    IN  AddResources(m, block.key, block.checksum, res)

\* pickle.dump(manifest) / pickle.load: the artifact holds every field of the
\* manifest as it is at the time of the write
Pickle(m) == [kind |-> "pickle", data |-> m]

Unpickle(file) == file.data

----------------------------------------------------------------------------
(* ManifestLoader *)

Tri == {"unset", "on", "off"}

DEFAULT_PARTIAL_PARSE == FALSE

_partial_parse_enabled_ConfigFirst(cfg) ==
    IF cfg.project # "unset" THEN cfg.project = "on"
    ELSE IF cfg.flag # "unset" THEN cfg.flag = "on"
    ELSE DEFAULT_PARTIAL_PARSE

\* _partial_parse_enabled: the CLI flag, else the project config, else the default
_partial_parse_enabled(cfg) ==
    IF cfg.flag # "unset" THEN cfg.flag = "on"
    ELSE IF cfg.project # "unset" THEN cfg.project = "on"
    ELSE DEFAULT_PARTIAL_PARSE

\* build_manifest_state_check: hashes of vars+profile+target+version, of
\* profiles.yml and of each package's dbt_project.yml
build_manifest_state_check(cfg) ==
    ManifestStateCheck(FileHash(<<cfg.vars, cfg.version>>),
                       FileHash(cfg.profile),
                       [p \in PackageNames |-> FileHash(cfg.declarations[p])])

Absent == [kind |-> "absent"]

Corrupt == [kind |-> "corrupt"]

Loaded(value, raised, read, outcome) ==
    [value |-> value, raised |-> raised, read |-> read, mpr |-> outcome]

\* mutant: the except clause dropped, an exception of the load propagates
read_saved_manifest_NoExcept(cfg, file, mine) ==
    IF ~_partial_parse_enabled(cfg) THEN Loaded(None, FALSE, FALSE, None)
    ELSE IF file = Absent THEN Loaded(None, FALSE, FALSE, None)
    ELSE IF file = Corrupt THEN Loaded(None, TRUE, TRUE, None)
    ELSE LET r == matching_parse_results(cfg.version, mine, Unpickle(file))
         IN  IF r.raised THEN Loaded(None, TRUE, TRUE, r)
             ELSE IF r.result THEN Loaded(Unpickle(file), FALSE, TRUE, r)
             ELSE Loaded(None, FALSE, TRUE, r)

\* read_saved_manifest: None unless partial parsing is enabled, the artifact
\* exists, unpickles, and matching_parse_results accepts it; every Exception of
\* the load or of the check is caught
read_saved_manifest(cfg, file, mine) ==
    IF ~_partial_parse_enabled(cfg) THEN Loaded(None, FALSE, FALSE, None)
    ELSE IF file = Absent THEN Loaded(None, FALSE, FALSE, None)
    ELSE IF file = Corrupt THEN Loaded(None, FALSE, TRUE, None)
    ELSE LET r == matching_parse_results(cfg.version, mine, Unpickle(file))
         IN  IF r.raised THEN Loaded(None, FALSE, TRUE, r)
             ELSE IF r.result THEN Loaded(Unpickle(file), FALSE, TRUE, r)
             ELSE Loaded(None, FALSE, TRUE, r)

\* FilePath.search_key: the path of the file in its package
SearchKey(f) == IF f = "dep/m.sql" THEN "m.sql" ELSE f

\* parser.load_file(path): the SourceFile read from disk
load_file(f, text) == [key |-> SearchKey(f), path |-> f, checksum |-> FileHash(text), contents |-> text]

_get_file_AlwaysLoad(cache, f, text) ==
    LET block == load_file(f, text)
    IN  [block |-> block,
         cache |-> [k \in DOMAIN cache \cup {SearchKey(f)} |->
                       IF k = SearchKey(f) THEN block ELSE cache[k]],
         loaded |-> TRUE]

\* _get_file: the block of the search key from _loaded_file_cache, loading it
\* on the first call
_get_file(cache, f, text) ==
    IF SearchKey(f) \in DOMAIN cache
    THEN [block |-> cache[SearchKey(f)], cache |-> cache, loaded |-> FALSE]
    ELSE LET block == load_file(f, text)
         IN  [block |-> block,
              cache |-> [k \in DOMAIN cache \cup {SearchKey(f)} |->
                            IF k = SearchKey(f) THEN block ELSE cache[k]],
              loaded |-> TRUE]

\* mutant: the old file is reused whenever its key is indexed, hash unseen
_get_cached_AnyHash(m, old, block, cls) ==
    IF old = None THEN [cached |-> FALSE, manifest |-> m]
    ELSE IF block.key \in DOMAIN old.files
    THEN [cached |-> TRUE, manifest |-> sanitized_update(m, block, old, ResourceType(cls))]
    ELSE [cached |-> FALSE, manifest |-> m]

\* mutant: the cached manifest is never consulted
_get_cached_Never(m, old, block, cls) == [cached |-> FALSE, manifest |-> m]

\* _get_cached: with an old manifest that has the file with the same checksum,
\* copy its resources into the manifest and report True
_get_cached(m, old, block, cls) ==
    IF old = None THEN [cached |-> FALSE, manifest |-> m]
    ELSE IF has_file(old, block)
    THEN [cached |-> TRUE, manifest |-> sanitized_update(m, block, old, ResourceType(cls))]
    ELSE [cached |-> FALSE, manifest |-> m]

\* mutant: a changed file is parsed into the resources its old version left
parse_with_cache_Merge(m, old, cache, f, cls, text) ==
    LET got == _get_file(cache, f, text)
        hit == _get_cached(m, old, got.block, cls)
        base == IF old # None /\ got.block.key \in DOMAIN old.files
                THEN sanitized_update(m, got.block, old, ResourceType(cls))
                ELSE m
    IN  [cache |-> got.cache,
         block |-> got.block,
         loaded |-> got.loaded,
         cached |-> hit.cached,
         manifest |-> IF hit.cached THEN hit.manifest
                      ELSE AddResources(base, got.block.key, got.block.checksum,
                                        ParseFile(cls, got.block.path, got.block.contents))]

\* parse_with_cache: parser.parse_file(block) unless _get_cached reused the file
parse_with_cache(m, old, cache, f, cls, text) ==
    LET got == _get_file(cache, f, text)
        hit == _get_cached(m, old, got.block, cls)
    IN  [cache |-> got.cache,
         block |-> got.block,
         loaded |-> got.loaded,
         cached |-> hit.cached,
         manifest |-> IF hit.cached THEN hit.manifest
                      ELSE AddResources(m, got.block.key, got.block.checksum,
                                        ParseFile(cls, got.block.path, got.block.contents))]

\* parser.search() of the parser class cls in package p: the files on disk
search(cls, p, disk) ==
    SelectSeq(FileOrder, LAMBDA f : /\ FilePackage(f) = p
                                    /\ cls \in FileParsers(f)
                                    /\ disk[f] # "absent")

Items(cls, files) == [i \in 1..Len(files) |-> [file |-> files[i], parser |-> cls]]

RECURSIVE Concat(_)
Concat(seqs) == IF seqs = <<>> THEN <<>> ELSE Head(seqs) \o Concat(Tail(seqs))

\* create_macro_manifest: MacroParser over every project, in order
MacroItems(disk) ==
    Concat([i \in 1..Len(Packages) |-> Items("MacroParser", search("MacroParser", Packages[i], disk))])

ProjectItems_LastParserFirst(p, disk) ==
    Concat([i \in 1..Len(ParserTypes) |->
               Items(ParserTypes[Len(ParserTypes) + 1 - i],
                     search(ParserTypes[Len(ParserTypes) + 1 - i], p, disk))])

\* parse_project: every parser of _parser_types, in order, over its search()
ProjectItems(p, disk) ==
    Concat([i \in 1..Len(ParserTypes) |-> Items(ParserTypes[i], search(ParserTypes[i], p, disk))])

\* mutant: the artifact written after update_manifest instead of before it
StepAfter_RefsFirst(step) ==
    CASE step = "load" -> "write"
      [] step = "write" -> "patch"
      [] step = "patch" -> "refs"
      [] step = "refs" -> "sources"
      [] step = "sources" -> "docs"
      [] step = "docs" -> "check"
      [] step = "check" -> "return"

StepAfter_WriteLast(step) ==
    CASE step = "load" -> "patch"
      [] step = "patch" -> "sources"
      [] step = "sources" -> "refs"
      [] step = "refs" -> "docs"
      [] step = "docs" -> "write"
      [] step = "write" -> "check"
      [] step = "check" -> "return"

StepAfter_SkipCheck(step) ==
    CASE step = "load" -> "write"
      [] step = "write" -> "patch"
      [] step = "patch" -> "sources"
      [] step = "sources" -> "refs"
      [] step = "refs" -> "docs"
      [] step = "docs" -> "return"
      [] step = "check" -> "return"

\* the order of get_full_manifest, update_manifest and process_manifest:
\* load, write_manifest_for_partial_parse, patches, process_sources,
\* process_refs, process_docs, _check_manifest, return
StepAfter(step) ==
    CASE step = "load" -> "write"
      [] step = "write" -> "patch"
      [] step = "patch" -> "sources"
      [] step = "sources" -> "refs"
      [] step = "refs" -> "docs"
      [] step = "docs" -> "check"
      [] step = "check" -> "return"

----------------------------------------------------------------------------
(* Reference resolution: process_sources, process_refs, process_docs *)

Refable == {"model", "seed", "snapshot"}

Found(id) == [kind |-> "found", unique_id |-> id]

Disabled == [kind |-> "disabled"]

\* the packages a mention is looked up in: the named package only, or the
\* mentioning resource's own package and then its dependencies as declared
SearchPackages(target_package, node_package) ==
    IF target_package # "" THEN <<target_package>>
    ELSE <<node_package>> \o Dependencies(node_package)

RefMatches(m, name, p) ==
    {id \in DOMAIN m.nodes : /\ m.nodes[id].name = name
                             /\ m.nodes[id].package_name = p
                             /\ m.nodes[id].resource_type \in Refable}

DisabledRefMatches(m, name, p) ==
    {i \in 1..Len(m.disabled) : /\ m.disabled[i].name = name
                                /\ m.disabled[i].package_name = p
                                /\ m.disabled[i].resource_type \in Refable}

\* the matches in the first package of the list that has any
\* (matches is the sequence of match sets, one per package searched)
FirstMatch(matches) ==
    LET hits == {i \in 1..Len(matches) : matches[i] # {}}
    IN  IF hits = {} THEN {}
        ELSE matches[CHOOSE i \in hits : \A j \in hits : i <= j]

\* Manifest.resolve_ref: the first active match, else a disabled match, else None
resolve_ref(m, name, target_package, node_package) ==
    LET packages == SearchPackages(target_package, node_package)
        active == FirstMatch([i \in 1..Len(packages) |-> RefMatches(m, name, packages[i])])
    IN  IF active # {} THEN Found(CHOOSE id \in active : TRUE)
        ELSE IF FirstMatch([i \in 1..Len(packages) |-> DisabledRefMatches(m, name, packages[i])]) # {} THEN Disabled
        ELSE None

SourceMatches(m, key, p) ==
    {id \in DOMAIN m.sources : /\ <<m.sources[id].source_name, m.sources[id].name>> = key
                               /\ m.sources[id].package_name = p}

DisabledSourceMatches(m, key, p) ==
    {i \in 1..Len(m.disabled) : /\ m.disabled[i].resource_type = "source"
                                /\ <<m.disabled[i].source_name, m.disabled[i].name>> = key
                                /\ m.disabled[i].package_name = p}

\* Manifest.resolve_source
resolve_source(m, source_name, table_name, node_package) ==
    LET packages == SearchPackages("", node_package)
        active == FirstMatch([i \in 1..Len(packages) |->
                       SourceMatches(m, <<source_name, table_name>>, packages[i])])
    IN  IF active # {} THEN Found(CHOOSE id \in active : TRUE)
        ELSE IF FirstMatch([i \in 1..Len(packages) |->
                 DisabledSourceMatches(m, <<source_name, table_name>>, packages[i])]) # {}
             THEN Disabled
        ELSE None

\* what a pass raises: nothing, the compilation error of ref_target_not_found /
\* source_target_not_found (with the arguments of the call), or the
\* InternalException of a ref of another arity
NoError == [kind |-> "none"]

TargetNotFound(pass, id, mention, disabled) ==
    [kind |-> "target_not_found", pass |-> pass, node |-> id, target |-> mention,
     disabled |-> disabled]

InternalException(id, got) == [kind |-> "internal", node |-> id, got |-> got]

\* a call of manifest.resolve_ref / manifest.resolve_source
Call(pass, id, mention) == [pass |-> pass, resource |-> id, mention |-> mention]

\* the outcome of a pass or of a part of one: the manifest as mutated so far,
\* the exception raised, the resolve calls made
Pass(m, error, calls) ==
    [manifest |-> m, raised |-> error.kind # "none", error |-> error, calls |-> calls]

\* flags.WARN_ERROR as the passes run: the default, warnings stay warnings
WARN_ERROR == FALSE

\* dbt.exceptions.warn_or_error(msg) under a warnings-as-errors setting:
\* whether it raises
WarnOrError(warn_error) == warn_error

\* dbt.exceptions.warn_or_error(msg): the warning is logged, nothing is raised
warn_or_error == WarnOrError(WARN_ERROR)

Report(channel, raised) == [channel |-> channel, raised |-> raised]

ReportUnresolved_WarnAlways(node, disabled, warn_error) ==
    IF node.resource_type = "test"
    THEN Report("warn_or_error", WarnOrError(warn_error))
    ELSE Report("target_not_found", TRUE)

\* the body of invalid_ref_fail_unless_test / invalid_source_fail_unless_test:
\* the channel the fault is reported on and whether the call raises
ReportUnresolved(node, disabled, warn_error) ==
    IF node.resource_type = "test"
    THEN IF disabled THEN Report("debug", FALSE)                \* logger.debug
         ELSE Report("warn_or_error", WarnOrError(warn_error))
    ELSE Report("target_not_found", TRUE)   \* ref_target_not_found / source_target_not_found

invalid_fail_unless_test_Lenient(node, disabled) == FALSE

invalid_fail_unless_test_Strict(node, disabled) == TRUE

\* invalid_ref_fail_unless_test / invalid_source_fail_unless_test: whether the
\* unresolved mention raises
invalid_fail_unless_test(node, disabled) ==
    ReportUnresolved(node, disabled, WARN_ERROR).raised

ValidArity_AtLeastOne(ref) == Len(ref) >= 1

\* len(ref) == 1 or len(ref) == 2
ValidArity(ref) == Len(ref) \in {1, 2}

RefArgs_NameOnly(ref) == [name |-> ref[Len(ref)], package |-> ""]

\* target_model_name, target_model_package of a ref ("" is None)
RefArgs(ref) ==
    [name |-> ref[Len(ref)], package |-> IF Len(ref) = 2 THEN ref[1] ELSE ""]

Disable_Move(m, id) ==
    [m EXCEPT !.nodes[id].enabled = FALSE, !.disabled = Append(@, m.nodes[id])]

\* node.config.enabled = False
Disable(m, id) == [m EXCEPT !.nodes[id].enabled = FALSE]

AddEdge_Reversed(m, id, target_id) ==
    IF target_id \in DOMAIN m.nodes
    THEN [m EXCEPT !.nodes[target_id].depends_on = Append(@, id)]
    ELSE m

AddEdge_Replace(m, id, target_id) == [m EXCEPT !.nodes[id].depends_on = <<target_id>>]

\* node.depends_on.nodes.append(target_id); manifest.update_node(node)
AddEdge(m, id, target_id) == [m EXCEPT !.nodes[id].depends_on = Append(@, target_id)]

\* exposure.depends_on.nodes.append(target_id); manifest.update_exposure(exposure)
AddExposureEdge(m, id, target_id) ==
    [m EXCEPT !.exposures[id].depends_on = Append(@, target_id)]

\* _process_refs_for_node, from the i-th ref of the node on
RECURSIVE RefsFrom(_, _, _, _)
RefsFrom(m, id, i, calls) ==
    LET node == m.nodes[id]
    IN  IF i > Len(node.refs) THEN Pass(m, NoError, calls)
        ELSE LET ref == node.refs[i]
             IN  IF ~ValidArity(ref) THEN Pass(m, InternalException(id, Len(ref)), calls)
                 ELSE LET args == RefArgs(ref)
                          target == resolve_ref(m, args.name, args.package, node.package_name)
                          called == Append(calls, Call("refs", id, ref))
                      IN  IF target.kind # "found"
                          THEN IF invalid_fail_unless_test(node, target = Disabled)
                               THEN Pass(Disable(m, id),
                                         TargetNotFound("refs", id, ref, target = Disabled),
                                         called)
                               ELSE RefsFrom(Disable(m, id), id, i + 1, called)
                          ELSE RefsFrom(AddEdge(m, id, target.unique_id), id, i + 1, called)

_process_refs_for_node(m, id) == RefsFrom(m, id, 1, <<>>)

\* _process_refs_for_exposure, from the i-th ref of the exposure on
RECURSIVE ExposureRefsFrom(_, _, _, _)
ExposureRefsFrom(m, id, i, calls) ==
    LET exposure == m.exposures[id]
    IN  IF i > Len(exposure.refs) THEN Pass(m, NoError, calls)
        ELSE LET ref == exposure.refs[i]
             IN  IF ~ValidArity(ref) THEN Pass(m, InternalException(id, Len(ref)), calls)
                 ELSE LET args == RefArgs(ref)
                          target == resolve_ref(m, args.name, args.package,
                                                exposure.package_name)
                          called == Append(calls, Call("refs", id, ref))
                      IN  IF target.kind # "found"
                          THEN IF invalid_fail_unless_test(exposure, target = Disabled)
                               THEN Pass(m, TargetNotFound("refs", id, ref, target = Disabled),
                                         called)
                               ELSE ExposureRefsFrom(m, id, i + 1, called)
                          ELSE ExposureRefsFrom(AddExposureEdge(m, id, target.unique_id),
                                                id, i + 1, called)

_process_refs_for_exposure(m, id) == ExposureRefsFrom(m, id, 1, <<>>)

\* _process_sources_for_node, from the i-th source mention of the node on
RECURSIVE SourcesFrom(_, _, _, _)
SourcesFrom(m, id, i, calls) ==
    LET node == m.nodes[id]
    IN  IF i > Len(node.sources) THEN Pass(m, NoError, calls)
        ELSE LET mention == node.sources[i]
                 target == resolve_source(m, mention[1], mention[2], node.package_name)
                 called == Append(calls, Call("sources", id, mention))
             IN  IF target.kind # "found"
                 THEN IF invalid_fail_unless_test(node, target = Disabled)
                      THEN Pass(Disable(m, id),
                                TargetNotFound("sources", id, mention, target = Disabled),
                                called)
                      ELSE SourcesFrom(Disable(m, id), id, i + 1, called)
                 ELSE SourcesFrom(AddEdge(m, id, target.unique_id), id, i + 1, called)

_process_sources_for_node(m, id) == SourcesFrom(m, id, 1, <<>>)

\* _process_sources_for_exposure, from the i-th source mention on
RECURSIVE ExposureSourcesFrom(_, _, _, _)
ExposureSourcesFrom(m, id, i, calls) ==
    LET exposure == m.exposures[id]
    IN  IF i > Len(exposure.sources) THEN Pass(m, NoError, calls)
        ELSE LET mention == exposure.sources[i]
                 target == resolve_source(m, mention[1], mention[2], exposure.package_name)
                 called == Append(calls, Call("sources", id, mention))
             IN  IF target.kind # "found"
                 THEN IF invalid_fail_unless_test(exposure, target = Disabled)
                      THEN Pass(m, TargetNotFound("sources", id, mention, target = Disabled),
                                called)
                      ELSE ExposureSourcesFrom(m, id, i + 1, called)
                 ELSE ExposureSourcesFrom(AddExposureEdge(m, id, target.unique_id),
                                          id, i + 1, called)

_process_sources_for_exposure(m, id) == ExposureSourcesFrom(m, id, 1, <<>>)

\* a resource a pass visits
Item(kind, id) == [kind |-> kind, id |-> id]

PassItems_NodesOnly(m, pass) ==
    [i \in 1..Len(m.node_order) |-> Item("node", m.node_order[i])]

\* the resources process_sources / process_refs visit, in the order of their
\* loops: manifest.nodes.values() (process_sources skips the nodes whose
\* resource type is Source), then manifest.exposures.values()
PassItems(m, pass) ==
    LET nodes == IF pass = "sources"
                 THEN SelectSeq(m.node_order,
                                LAMBDA id : m.nodes[id].resource_type # "source")
                 ELSE m.node_order
    IN  [i \in 1..Len(nodes) |-> Item("node", nodes[i])]
        \o [i \in 1..Len(m.exposure_order) |-> Item("exposure", m.exposure_order[i])]

\* the body of the loops of process_sources / process_refs for one resource
ProcessItem(m, item, pass) ==
    CASE pass = "sources" /\ item.kind = "node" -> _process_sources_for_node(m, item.id)
      [] pass = "sources" /\ item.kind = "exposure" -> _process_sources_for_exposure(m, item.id)
      [] pass = "refs" /\ item.kind = "node" -> _process_refs_for_node(m, item.id)
      [] pass = "refs" /\ item.kind = "exposure" -> _process_refs_for_exposure(m, item.id)

\* the loops from the resources of items on, stopping at the first exception
RECURSIVE OverItems(_, _, _)
OverItems(r, items, pass) ==
    IF items = <<>> \/ r.raised THEN r
    ELSE LET step == ProcessItem(r.manifest, Head(items), pass)
         IN  OverItems(Pass(step.manifest, step.error, r.calls \o step.calls),
                       Tail(items), pass)

process_sources(m) == OverItems(Pass(m, NoError, <<>>), PassItems(m, "sources"), "sources")

process_refs(m) == OverItems(Pass(m, NoError, <<>>), PassItems(m, "refs"), "refs")

\* get_rendered(description, context)
get_rendered(text) == "rendered"

\* _process_docs_for_node of one node
_process_docs_for_node(m, id) ==
    [m EXCEPT !.nodes[id].description = get_rendered(@)]

\* process_docs: render the descriptions of nodes, sources, macros and exposures
process_docs(m) ==
    [m EXCEPT !.nodes = [id \in DOMAIN @ |-> [@[id] EXCEPT !.description = get_rendered(@)]],
              !.sources = [id \in DOMAIN @ |-> [@[id] EXCEPT !.description = get_rendered(@)]],
              !.macros = [id \in DOMAIN @ |-> [@[id] EXCEPT !.description = get_rendered(@)]],
              !.exposures =
                  [id \in DOMAIN @ |-> [@[id] EXCEPT !.description = get_rendered(@)]]]

\* patch_sources replaces the unparsed source definitions by parsed ones
patch_sources(m) ==
    [m EXCEPT !.sources = [id \in DOMAIN @ |-> [@[id] EXCEPT !.patched = TRUE]]]

\* update_manifest before process_manifest: the sources are patched and
\* manifest.disabled becomes the concatenation of the lists of manifest._disabled
update_manifest(m) ==
    LET ids == SeqOf(DOMAIN m._disabled)
        patched == patch_sources(m)
    IN  [patched EXCEPT !.disabled = Concat([i \in 1..Len(ids) |-> m._disabled[ids[i]]])]

\* str(relation_cls.create_from(config, node)): the schema and the alias of the
\* node, in the one database of the target
RelationOf(node) == node.schema \o "." \o node.alias

NoConflict == [kind |-> "none"]

\* dbt.exceptions.raise_duplicate_resource_name(existing_node, node)
DuplicateResourceName(existing_node, node) ==
    [kind |-> "duplicate_resource_name", first |-> existing_node, second |-> node]

\* dbt.exceptions.raise_ambiguous_alias(existing_alias, node, full_node_name)
AmbiguousAlias(existing_alias, node, full_node_name) ==
    [kind |-> "ambiguous_alias", first |-> existing_alias, second |-> node,
     relation |-> full_node_name]

\* names_resources and alias_resources before the loop
NothingSeen == [names |-> EmptyMap, aliases |-> EmptyMap, error |-> NoConflict]

Put(map, key, value) == [k \in DOMAIN map \cup {key} |-> IF k = key THEN value ELSE map[k]]

CheckNode_NameOnly(seen, node) ==
    IF node.resource_type \notin Refable THEN seen
    ELSE IF node.name \in DOMAIN seen.names
         THEN [seen EXCEPT !.error = DuplicateResourceName(seen.names[node.name], node.unique_id)]
         ELSE [seen EXCEPT !.names = Put(@, node.name, node.unique_id)]

\* one turn of the loop of _check_resource_uniqueness
CheckNode(seen, node) ==
    LET name == node.name
        full_node_name == RelationOf(node)
    IN  IF node.resource_type \notin Refable THEN seen
        ELSE IF name \in DOMAIN seen.names
             THEN [seen EXCEPT !.error = DuplicateResourceName(seen.names[name],
                                                               node.unique_id)]
             ELSE IF full_node_name \in DOMAIN seen.aliases
                  THEN [seen EXCEPT !.error = AmbiguousAlias(seen.aliases[full_node_name],
                                                             node.unique_id, full_node_name)]
                  ELSE [seen EXCEPT !.names = Put(@, name, node.unique_id),
                                    !.aliases = Put(@, full_node_name, node.unique_id)]

\* the loop from the i-th node of manifest.nodes.items() on
RECURSIVE CheckFrom(_, _, _)
CheckFrom(m, i, seen) ==
    IF i > Len(m.node_order) \/ seen.error.kind # "none" THEN seen
    ELSE CheckFrom(m, i + 1, CheckNode(seen, m.nodes[m.node_order[i]]))

\* _check_resource_uniqueness: the exception it raises, if any
_check_resource_uniqueness(m) == CheckFrom(m, 1, NothingSeen).error

----------------------------------------------------------------------------
(* Specification Spec: invocations of get_full_manifest on one project     *)
(* directory, with changes to the files, the configuration and the cache   *)
(* artifact between them.                                                  *)

\* invocations of get_full_manifest in a behaviour
MaxRuns == 3

\* changes to files, configuration or artifact in a behaviour
MaxEdits == 2

Idle == pc \in {"idle", "done", "fatal"}

\* what a run has done so far; loads are the search keys parser.load_file was
\* called for since the file cache was last cleared, block is the block the
\* last call of _get_file returned
NewTrace(read, error) ==
    [parsed |-> {}, reused |-> {}, passes |-> <<>>, read |-> read, error |-> error,
     written |-> FALSE, loads |-> <<>>, block |-> None]

Init ==
    /\ config = [flag |-> "unset", project |-> "on",
                 version |-> CurrentVersion, vars |-> 1, profile |-> 1,
                 declarations |-> [p \in PackageNames |-> 1]]
    /\ content = [f \in Files |-> IF f \in Twins THEN "absent" ELSE "v1"]
    /\ artifact = Absent
    /\ pc = "idle"
    /\ manifest = None
    /\ old_manifest = None
    /\ mpr = None
    /\ loaded_file_cache = EmptyMap
    /\ todo = <<>>
    /\ pkg = 0
    /\ trace = NewTrace(FALSE, "none")
    /\ returned = None
    /\ prev = [manifest |-> None, unchanged |-> FALSE]
    /\ hist = [runs |-> 0, edits |-> 0, dirty |-> FALSE]

Changed ==
    /\ Idle
    /\ hist.edits < MaxEdits
    /\ hist' = [hist EXCEPT !.edits = @ + 1, !.dirty = TRUE]
    /\ UNCHANGED <<pc, manifest, old_manifest, mpr, loaded_file_cache, todo, pkg, trace,
                   returned, prev>>

\* a file of the tree is edited, created or deleted (the project keeps having
\* no two files of one search key)
EditFile ==
    /\ \E f \in Files \ Twins : \E t \in Texts(f) \ {content[f]} : content' = [content EXCEPT ![f] = t]
    /\ Changed
    /\ UNCHANGED <<config, artifact>>

\* --partial-parse / --no-partial-parse, or neither, on the command line
SetFlag ==
    /\ \E v \in Tri \ {config.flag} : config' = [config EXCEPT !.flag = v]
    /\ Changed
    /\ UNCHANGED <<content, artifact>>

\* partial_parse in the project configuration
SetProjectOption ==
    /\ \E v \in Tri \ {config.project} : config' = [config EXCEPT !.project = v]
    /\ Changed
    /\ UNCHANGED <<content, artifact>>

\* another release of the tool is installed
ChangeVersion ==
    /\ \E v \in {CurrentVersion, CurrentVersion + 1} \ {config.version} :
          config' = [config EXCEPT !.version = v]
    /\ Changed
    /\ UNCHANGED <<content, artifact>>

\* profiles.yml is edited
ChangeProfile ==
    /\ \E h \in Hashes \ {config.profile} : config' = [config EXCEPT !.profile = h]
    /\ Changed
    /\ UNCHANGED <<content, artifact>>

\* the dbt_project.yml of a package is edited
ChangeDeclaration ==
    /\ \E p \in PackageNames : \E h \in Hashes \ {config.declarations[p]} :
          config' = [config EXCEPT !.declarations[p] = h]
    /\ Changed
    /\ UNCHANGED <<content, artifact>>

\* a pickle whose state_check lacks its attributes, as another build writes it
ForeignPickle ==
    Pickle([kind |-> "manifest", dbt_version |-> VersionTag(config.version),
            state_check |-> MalformedStateCheck])

\* the artifact is deleted, damaged, or replaced by another build's pickle
TamperArtifact ==
    /\ artifact' \in {Absent, Corrupt, ForeignPickle} \ {artifact}
    /\ Changed
    /\ UNCHANGED <<config, content>>

\* ManifestLoader(config, projects, macro_hook): the empty manifest, its state
\* check, and old_manifest = read_saved_manifest()
Construct ==
    /\ Idle
    /\ hist.runs < MaxRuns
    /\ LET sc == build_manifest_state_check(config)
           got == read_saved_manifest(config, artifact, sc)
       IN  /\ manifest' = EmptyManifest(config.version, sc)
           /\ old_manifest' = got.value
           /\ mpr' = got.mpr
           /\ trace' = NewTrace(got.read, IF got.raised THEN "read_saved_manifest" ELSE "none")
           /\ pc' = IF got.raised THEN "fatal" ELSE "macros"
    /\ loaded_file_cache' = EmptyMap
    /\ todo' = MacroItems(content)
    /\ pkg' = 0
    /\ prev' = [manifest |-> returned, unchanged |-> (pc = "done" /\ ~hist.dirty)]
    /\ returned' = None
    /\ hist' = [hist EXCEPT !.runs = @ + 1, !.dirty = FALSE]
    /\ UNCHANGED <<config, content, artifact>>

\* parse_with_cache(path, parser) for the next path of the running search()
ParseWithCache ==
    /\ pc \in {"macros", "parse"}
    /\ todo # <<>>
    /\ LET item == Head(todo)
           r == parse_with_cache(manifest, old_manifest, loaded_file_cache,
                                 item.file, item.parser, content[item.file])
       IN  /\ manifest' = r.manifest
           /\ loaded_file_cache' = r.cache
           /\ trace' = [trace EXCEPT
                            !.reused = IF r.cached THEN @ \cup {item} ELSE @,
                            !.parsed = IF r.cached THEN @ ELSE @ \cup {item},
                            !.loads = IF r.loaded THEN Append(@, r.block.key) ELSE @,
                            !.block = r.block]
    /\ todo' = Tail(todo)
    /\ UNCHANGED <<config, content, artifact, pc, old_manifest, mpr, pkg, returned, prev, hist>>

\* load_macros_from_adapter is done; load() starts
MacrosDone ==
    /\ pc = "macros"
    /\ todo = <<>>
    /\ pc' = "parse"
    /\ UNCHANGED <<config, content, artifact, manifest, old_manifest, mpr,
                   loaded_file_cache, todo, pkg, trace, returned, prev, hist>>

\* parse_project(project) up to its loops: the per-project cache is cleared
ParseProject ==
    /\ pc = "parse"
    /\ todo = <<>>
    /\ pkg < Len(Packages)
    /\ pkg' = pkg + 1
    /\ loaded_file_cache' = EmptyMap
    /\ trace' = [trace EXCEPT !.loads = <<>>]
    /\ todo' = ProjectItems(Packages[pkg + 1], content)
    /\ UNCHANGED <<config, content, artifact, pc, manifest, old_manifest, mpr,
                   returned, prev, hist>>

\* load() returns
LoadDone ==
    /\ pc = "parse"
    /\ todo = <<>>
    /\ pkg = Len(Packages)
    /\ pc' = StepAfter("load")
    /\ UNCHANGED <<config, content, artifact, manifest, old_manifest, mpr,
                   loaded_file_cache, todo, pkg, trace, returned, prev, hist>>

\* write_manifest_for_partial_parse: the manifest as it is now is pickled
WriteManifest ==
    /\ pc = "write"
    /\ artifact' = Pickle(manifest)
    /\ pc' = StepAfter("write")
    /\ trace' = [trace EXCEPT !.written = TRUE]
    /\ UNCHANGED <<config, content, manifest, old_manifest, mpr,
                   loaded_file_cache, todo, pkg, returned, prev, hist>>

\* write_manifest_for_partial_parse raises: make_directory fails (the artifact
\* stays) or open/pickle.dump fails (the artifact is truncated)
WriteFails ==
    /\ pc = "write"
    /\ artifact' \in {artifact, Corrupt}
    /\ pc' = "fatal"
    /\ trace' = [trace EXCEPT !.error = "write"]
    /\ UNCHANGED <<config, content, manifest, old_manifest, mpr,
                   loaded_file_cache, todo, pkg, returned, prev, hist>>

\* update_manifest: patch_sources, disabled, patch_nodes, patch_macros
PatchManifest ==
    /\ pc = "patch"
    /\ manifest' = update_manifest(manifest)
    /\ pc' = StepAfter("patch")
    /\ UNCHANGED <<config, content, artifact, old_manifest, mpr,
                   loaded_file_cache, todo, pkg, trace, returned, prev, hist>>

ProcessSources ==
    /\ pc = "sources"
    /\ LET r == process_sources(manifest)
       IN  /\ manifest' = r.manifest
           /\ pc' = IF r.raised THEN "fatal" ELSE StepAfter("sources")
    /\ trace' = [trace EXCEPT !.passes = Append(@, "sources"),
                              !.error = IF pc' = "fatal" THEN "sources" ELSE @]
    /\ UNCHANGED <<config, content, artifact, old_manifest, mpr,
                   loaded_file_cache, todo, pkg, returned, prev, hist>>

ProcessRefs ==
    /\ pc = "refs"
    /\ LET r == process_refs(manifest)
       IN  /\ manifest' = r.manifest
           /\ pc' = IF r.raised THEN "fatal" ELSE StepAfter("refs")
    /\ trace' = [trace EXCEPT !.passes = Append(@, "refs"),
                              !.error = IF pc' = "fatal" THEN "refs" ELSE @]
    /\ UNCHANGED <<config, content, artifact, old_manifest, mpr,
                   loaded_file_cache, todo, pkg, returned, prev, hist>>

ProcessDocs ==
    /\ pc = "docs"
    /\ manifest' = process_docs(manifest)
    /\ pc' = StepAfter("docs")
    /\ trace' = [trace EXCEPT !.passes = Append(@, "docs")]
    /\ UNCHANGED <<config, content, artifact, old_manifest, mpr,
                   loaded_file_cache, todo, pkg, returned, prev, hist>>

\* _check_manifest
CheckManifest ==
    /\ pc = "check"
    /\ pc' = IF _check_resource_uniqueness(manifest).kind # "none"
             THEN "fatal" ELSE StepAfter("check")
    /\ trace' = [trace EXCEPT !.error = IF pc' = "fatal" THEN "uniqueness" ELSE @]
    /\ UNCHANGED <<config, content, artifact, manifest, old_manifest, mpr,
                   loaded_file_cache, todo, pkg, returned, prev, hist>>

\* build_flat_graph; return manifest
Return ==
    /\ pc = "return"
    /\ returned' = manifest
    /\ pc' = "done"
    /\ UNCHANGED <<config, content, artifact, manifest, old_manifest, mpr,
                   loaded_file_cache, todo, pkg, trace, prev, hist>>

Next ==
    \/ EditFile
    \/ SetFlag
    \/ SetProjectOption
    \/ ChangeVersion
    \/ ChangeProfile
    \/ ChangeDeclaration
    \/ TamperArtifact
    \/ Construct
    \/ ParseWithCache
    \/ MacrosDone
    \/ ParseProject
    \/ LoadDone
    \/ WriteManifest
    \/ WriteFails
    \/ PatchManifest
    \/ ProcessSources
    \/ ProcessRefs
    \/ ProcessDocs
    \/ CheckManifest
    \/ Return

Spec == Init /\ [][Next]_vars

----------------------------------------------------------------------------
(* Specification SpecResolve: update_manifest on a manifest as load() leaves *)
(* it, one resource of a pass at a time, and then process_node for a node    *)
(* added to the finished manifest.                                          *)

\* the longest ref a parser is taken to produce
MaxArity == 3

\* refs of an arity other than 1 and 2
BadRefs == {[i \in 1..n |-> "z"] : n \in {0} \cup 3..MaxArity}

ParsedExposure(id, pkgname, name, refs, sources) ==
    [unique_id |-> id, resource_type |-> "exposure", package_name |-> pkgname,
     name |-> name, refs |-> refs, sources |-> sources, depends_on |-> <<>>,
     description |-> "raw"]

Mentions(refs, sources) == [refs |-> refs, sources |-> sources]

\* what model A, model B, the test T / the exposure E / a dynamic node mention
AMentions ==
    {Mentions(<<>>, <<>>), Mentions(<< <<"B">> >>, <<>>), Mentions(<< <<"A">> >>, <<>>),
     Mentions(<<>>, << <<"raw", "events">> >>)}

BMentions ==
    {Mentions(refs, <<>>) :
        refs \in {<< <<"A">> >>, << <<"X">> >>, << <<"lib", "X">> >>, << <<"A">>, <<"X">> >>,
                  << <<"A">>, <<"A">> >>}
                 \cup {<<r>> : r \in BadRefs}}

OtherMentions ==
    {Mentions(refs, <<>>) : refs \in {<< <<"A">> >>, << <<"X">> >>} \cup {<<r>> : r \in BadRefs}}
        \cup {Mentions(<< <<"A">> >>, << <<"raw", "events">> >>)}

\* where a model named X is defined: in the root package or not, in the first
\* dependency (possibly disabled) and in the second dependency or not
XPlacements == [root : BOOLEAN, dep : {"absent", "active", "disabled"}, lib : BOOLEAN]

SourceStates == {"absent", "active", "disabled"}

ModelX(p) == ParsedNode("model." \o p \o ".X", "model", p, "X", "v1", <<>>, <<>>)

RawEvents == SourceDefinition("source.root.raw.events", "root", "raw", "events", "v1")

\* the manifest load() leaves for such a project: nodes and exposures without
\* edges, the disabled resources under manifest._disabled
ParsedManifest(a, b, t, e, x, s) ==
    LET nodes == <<ParsedNode("model.root.A", "model", "root", "A", "v1", a.refs, a.sources),
                   ParsedNode("model.root.B", "model", "root", "B", "v1", b.refs, b.sources),
                   ParsedNode("test.root.T", "test", "root", "T", "v1", t.refs, t.sources)>>
                 \o (IF x.lib THEN <<ModelX("lib")>> ELSE <<>>)
                 \o (IF x.dep = "active" THEN <<ModelX("dep")>> ELSE <<>>)
                 \o (IF x.root THEN <<ModelX("root")>> ELSE <<>>)
        exposures == <<ParsedExposure("exposure.root.E", "root", "E", e.refs, e.sources)>>
        off == (IF x.dep = "disabled"
                THEN <<[ModelX("dep") EXCEPT !.enabled = FALSE]>> ELSE <<>>)
               \o (IF s = "disabled" THEN <<RawEvents>> ELSE <<>>)
        empty == EmptyManifest(CurrentVersion, None)
    IN  [empty EXCEPT
            !.nodes = WithAll(EmptyMap, nodes),
            !.node_order = [i \in 1..Len(nodes) |-> nodes[i].unique_id],
            !.sources = IF s = "active" THEN WithAll(EmptyMap, <<RawEvents>>) ELSE EmptyMap,
            !.exposures = WithAll(EmptyMap, exposures),
            !.exposure_order = [i \in 1..Len(exposures) |-> exposures[i].unique_id],
            !._disabled = [id \in Ids(off) |-> <<CHOOSE r \in Range(off) : r.unique_id = id>>]]

ResolveTrace(node) == [calls |-> <<>>, error |-> NoError, passes |-> <<>>, node |-> node]

InitResolve ==
    /\ config = None
    /\ content = None
    /\ artifact = None
    /\ old_manifest = None
    /\ mpr = None
    /\ loaded_file_cache = None
    /\ pkg = 0
    /\ returned = None
    /\ hist = None
    /\ \E a \in AMentions, b \in BMentions, t \in OtherMentions, e \in OtherMentions,
          x \in XPlacements, s \in SourceStates :
          manifest = ParsedManifest(a, b, t, e, x, s)
    /\ prev = manifest
    /\ pc = "patch"
    /\ todo = <<>>
    /\ trace = ResolveTrace("")

ResolveFrame ==
    UNCHANGED <<config, content, artifact, old_manifest, mpr, loaded_file_cache, pkg,
                returned, hist, prev>>

\* update_manifest up to its call of process_manifest
ResolveUpdate ==
    /\ pc = "patch"
    /\ manifest' = update_manifest(manifest)
    /\ pc' = StepAfter("patch")
    /\ todo' = PassItems(manifest', pc')
    /\ UNCHANGED trace
    /\ ResolveFrame

\* one turn of the loop of process_sources or process_refs
ResolveItem ==
    /\ pc \in {"sources", "refs"}
    /\ todo # <<>>
    /\ LET r == ProcessItem(manifest, Head(todo), pc)
       IN  /\ manifest' = r.manifest
           /\ trace' = [trace EXCEPT !.calls = @ \o r.calls, !.error = r.error]
           /\ pc' = IF r.raised THEN "fatal" ELSE pc
    /\ todo' = Tail(todo)
    /\ ResolveFrame

\* process_sources or process_refs returns; process_manifest calls the next
ResolvePassDone ==
    /\ pc \in {"sources", "refs"}
    /\ todo = <<>>
    /\ pc' = StepAfter(pc)
    /\ todo' = IF pc' \in {"sources", "refs"} THEN PassItems(manifest, pc') ELSE <<>>
    /\ trace' = [trace EXCEPT !.passes = Append(@, pc)]
    /\ UNCHANGED manifest
    /\ ResolveFrame

\* process_docs; update_manifest returns
ResolveDocs ==
    /\ pc = "docs"
    /\ manifest' = process_docs(manifest)
    /\ pc' = "done"
    /\ trace' = [trace EXCEPT !.passes = Append(@, "docs")]
    /\ UNCHANGED todo
    /\ ResolveFrame

\* the order of the statements of process_node
NodeStepAfter(step) ==
    CASE step = "node_enter" -> "node_sources"
      [] step = "node_sources" -> "node_refs"
      [] step = "node_refs" -> "node_docs"
      [] step = "node_docs" -> "node_done"

\* a dynamic node is created in the finished manifest and process_node is
\* called for it
AddNode ==
    /\ pc = "done"
    /\ \E q \in OtherMentions :
          LET node == ParsedNode("rpc.root.Q", "rpc", "root", "Q", "v1", q.refs, q.sources)
          IN  manifest' = [manifest EXCEPT !.nodes = WithAll(@, <<node>>),
                                           !.node_order = Append(@, node.unique_id)]
    /\ pc' = NodeStepAfter("node_enter")
    /\ trace' = ResolveTrace("rpc.root.Q")
    /\ UNCHANGED todo
    /\ ResolveFrame

\* process_node: _process_sources_for_node
ProcessNodeSources ==
    /\ pc = "node_sources"
    /\ LET r == _process_sources_for_node(manifest, trace.node)
       IN  /\ manifest' = r.manifest
           /\ trace' = [trace EXCEPT !.calls = @ \o r.calls, !.error = r.error,
                                     !.passes = Append(@, "sources")]
           /\ pc' = IF r.raised THEN "fatal" ELSE NodeStepAfter(pc)
    /\ UNCHANGED todo
    /\ ResolveFrame

\* process_node: _process_refs_for_node
ProcessNodeRefs ==
    /\ pc = "node_refs"
    /\ LET r == _process_refs_for_node(manifest, trace.node)
       IN  /\ manifest' = r.manifest
           /\ trace' = [trace EXCEPT !.calls = @ \o r.calls, !.error = r.error,
                                     !.passes = Append(@, "refs")]
           /\ pc' = IF r.raised THEN "fatal" ELSE NodeStepAfter(pc)
    /\ UNCHANGED todo
    /\ ResolveFrame

\* process_node: _process_docs_for_node
ProcessNodeDocs ==
    /\ pc = "node_docs"
    /\ manifest' = _process_docs_for_node(manifest, trace.node)
    /\ trace' = [trace EXCEPT !.passes = Append(@, "docs")]
    /\ pc' = NodeStepAfter(pc)
    /\ UNCHANGED todo
    /\ ResolveFrame

NextResolve ==
    \/ ResolveUpdate
    \/ ResolveItem
    \/ ResolvePassDone
    \/ ResolveDocs
    \/ AddNode
    \/ ProcessNodeSources
    \/ ProcessNodeRefs
    \/ ProcessNodeDocs

SpecResolve == InitResolve /\ [][NextResolve]_vars

----------------------------------------------------------------------------
(* Claims about matching_parse_results, checked under SpecMatch *)

Returned == pc = "returned"

BothCarryStateCheck ==
    /\ manifest.state_check # None
    /\ artifact.state_check # None
    /\ artifact.state_check # MalformedStateCheck

VersionEqual == artifact.dbt_version = VersionTag(CurrentVersion)

VarsEqual == manifest.state_check.vars_hash = artifact.state_check.vars_hash

ProfileEqual == manifest.state_check.profile_hash = artifact.state_check.profile_hash

NoPackageMissing ==
    \A k \in DOMAIN manifest.state_check.project_hashes :
        k \in DOMAIN artifact.state_check.project_hashes

CommonPackagesEqual ==
    \A k \in DOMAIN manifest.state_check.project_hashes
            \cap DOMAIN artifact.state_check.project_hashes :
        manifest.state_check.project_hashes[k] = artifact.state_check.project_hashes[k]

PersistedOnlyPackage ==
    \E k \in DOMAIN artifact.state_check.project_hashes :
        k \notin DOMAIN manifest.state_check.project_hashes

\* C1: when both manifests carry a state check, matching_parse_results returns
\* true iff the version tag, vars_hash and profile_hash are equal, no package of
\* the current project_hashes is missing from the persisted ones and the hashes
\* of the packages present in both are equal; when a state check is absent the
\* result is false.
C1_MatchIffAllFive ==
    Returned =>
        /\ BothCarryStateCheck =>
              /\ ~mpr.raised
              /\ mpr.result <=> (/\ VersionEqual
                                 /\ VarsEqual
                                 /\ ProfileEqual
                                 /\ NoPackageMissing
                                 /\ CommonPackagesEqual)
        /\ (manifest.state_check = None \/ artifact.state_check = None) =>
              (~mpr.result /\ ~mpr.raised)

C1_Witness ==
    /\ Returned
    /\ BothCarryStateCheck
    /\ mpr.result
    /\ DOMAIN manifest.state_check.project_hashes = PackageNames

\* C2: a persisted manifest whose version tag is older, newer, malformed or
\* missing is rejected whatever its state check holds, and the rejection is the
\* return value false, not an exception.
C2_VersionMismatchRejects ==
    (Returned /\ ~VersionEqual) => (~mpr.result /\ ~mpr.raised)

C2_Witness ==
    /\ Returned
    /\ artifact.dbt_version = VersionTag(CurrentVersion + 1)
    /\ BothCarryStateCheck
    /\ manifest.state_check = artifact.state_check
    /\ ~mpr.result
    /\ ~mpr.raised

\* C3: a different version, a different profile hash, a different hash of one
\* package of the current run, or a package of the current run that the
\* persisted set lacks each rejects the cache; a package only the persisted set
\* holds does not reject it when everything else agrees.
C3_AsymmetricPackageCheck ==
    Returned =>
        /\ ~VersionEqual => ~mpr.result
        /\ BothCarryStateCheck =>
              /\ ~ProfileEqual => ~mpr.result
              /\ ~CommonPackagesEqual => ~mpr.result
              /\ ~NoPackageMissing => ~mpr.result
              /\ (/\ PersistedOnlyPackage
                  /\ VersionEqual
                  /\ VarsEqual
                  /\ ProfileEqual
                  /\ NoPackageMissing
                  /\ CommonPackagesEqual) => mpr.result

C3_Witness ==
    /\ Returned
    /\ BothCarryStateCheck
    /\ PersistedOnlyPackage
    /\ DOMAIN manifest.state_check.project_hashes # {}
    /\ mpr.result

\* the diagnostics of a call in which every failing check was evaluated
AllFailingChecksLogged ==
    /\ mpr.log.malformed <=> (artifact.dbt_version = MissingTag)
    /\ mpr.log.version <=> (~VersionEqual /\ artifact.dbt_version # MissingTag)
    /\ mpr.log.vars <=> ~VarsEqual
    /\ mpr.log.profile <=> ~ProfileEqual
    /\ mpr.log.missing =
          missing_keys(manifest.state_check.project_hashes,
                       artifact.state_check.project_hashes)
    /\ mpr.log.mismatch =
          mismatched_keys(manifest.state_check.project_hashes,
                          artifact.state_check.project_hashes)

\* C4 as stated: all five checks are evaluated on every call, each failing one
\* with its own diagnostic. The version check returns at once, so this fails.
C4_AllFiveEvaluated ==
    (Returned /\ BothCarryStateCheck) => (AllFailingChecksLogged /\ ~mpr.raised)

\* C4 amended: a version-tag mismatch (or a missing tag) returns false at once
\* with only its own diagnostic; when the tag matches and both state checks are
\* present, the four hash checks are all evaluated without short-circuit, each
\* failing one logs its own diagnostic, and the result is false iff any fails.
C4_HashChecksNotShortCircuited ==
    (Returned /\ BothCarryStateCheck) =>
        /\ ~mpr.raised
        /\ ~VersionEqual =>
              /\ ~mpr.result
              /\ mpr.log = [NoLog EXCEPT
                                !.malformed = (artifact.dbt_version = MissingTag),
                                !.version = (artifact.dbt_version # MissingTag)]
        /\ VersionEqual =>
              /\ AllFailingChecksLogged
              /\ mpr.result <=> (/\ ~mpr.log.vars
                                 /\ ~mpr.log.profile
                                 /\ mpr.log.missing = {}
                                 /\ mpr.log.mismatch = {})

C4_Witness ==
    /\ Returned
    /\ BothCarryStateCheck
    /\ VersionEqual
    /\ mpr.log.vars
    /\ mpr.log.profile
    /\ mpr.log.missing # {}
    /\ mpr.log.mismatch # {}

----------------------------------------------------------------------------
(* Claims about the loader, checked under Spec *)

Running == ~Idle

PartialParseEnabled == _partial_parse_enabled(config)

\* the compatibility check of this run's state check against the artifact
CacheCheck ==
    matching_parse_results(config.version, build_manifest_state_check(config),
                           Unpickle(artifact))

\* state CacheAccepted: enabled, the artifact unpickles and the check accepts it
CacheAccepted ==
    /\ PartialParseEnabled
    /\ artifact.kind = "pickle"
    /\ ~CacheCheck.raised
    /\ CacheCheck.result

\* the loader has been constructed and the artifact is still the one it read
Constructed == pc = "macros"

\* C5: read_saved_manifest never raises; with partial parsing disabled it
\* returns None without opening the artifact; an absent artifact, a failing
\* unpickle or a raising compatibility check give None; the persisted manifest
\* is returned exactly when it unpickled and matching_parse_results accepted it.
C5_ReadSavedManifestNeverFails ==
    /\ trace.error # "read_saved_manifest"
    /\ Constructed =>
          /\ ~PartialParseEnabled => (old_manifest = None /\ ~trace.read)
          /\ artifact = Absent => old_manifest = None
          /\ artifact = Corrupt => old_manifest = None
          /\ (PartialParseEnabled /\ artifact.kind = "pickle" /\ CacheCheck.raised) =>
                old_manifest = None
          /\ old_manifest # None <=> CacheAccepted
          /\ old_manifest # None => old_manifest = Unpickle(artifact)

C5_Witness ==
    /\ Constructed
    /\ old_manifest # None
    /\ trace.read

\* the file is in the cached manifest's index with the checksum it has now
Reusable(f) ==
    /\ old_manifest # None
    /\ SearchKey(f) \in DOMAIN old_manifest.files
    /\ old_manifest.files[SearchKey(f)].checksum = FileHash(content[f])

\* every (file, parser) pair a full load hands to parse_with_cache
AllItems ==
    Range(MacroItems(content))
        \cup UNION {Range(ProjectItems(p, content)) : p \in PackageNames}

Handled == trace.parsed \cup trace.reused

\* the resources of the old manifest that came from file f through parser cls
OldNodesOf(f, cls) ==
    {old_manifest.nodes[id] : id \in
        {i \in old_manifest.files[SearchKey(f)].nodes :
            old_manifest.nodes[i].resource_type = ResourceType(cls)}}

BeforePasses == pc \in {"macros", "parse", "write"}

OnDisk == {f \in Files : content[f] # "absent"}

\* the files on disk whose content differs from the cached run's
ChangedFiles == {f \in OnDisk : ~Reusable(f)}

ParsedFiles == {item.file : item \in trace.parsed}

\* the resources the manifest m attributes to file f
ResourcesOf(m, f) ==
    IF SearchKey(f) \notin DOMAIN m.files THEN {}
    ELSE {m.nodes[id] : id \in m.files[SearchKey(f)].nodes}
            \cup {m.sources[id] : id \in m.files[SearchKey(f)].sources}
            \cup {m.macros[id] : id \in m.files[SearchKey(f)].macros}

ParsePhaseOver == pc = StepAfter("load")

\* a resource without what update_manifest and the passes recompute in every
\* run: edges, the enabled flag, source patches and rendered descriptions
AsParsed(r) ==
    IF r.resource_type = "source" THEN [r EXCEPT !.patched = FALSE, !.description = "raw"]
    ELSE IF r.resource_type = "macro" THEN [r EXCEPT !.description = "raw"]
    ELSE [r EXCEPT !.depends_on = <<>>, !.enabled = TRUE, !.description = "raw"]

\* C7: with an accepted cache, parse_file is called for exactly the files whose
\* content changed since the cached run (for file k only when only k changed);
\* the resources of every other file are those of the cached manifest, by
\* value, and they are the prior run's resources for that file.
C7_InvalidationLocality ==
    /\ (ParsePhaseOver /\ old_manifest # None) =>
          /\ ParsedFiles = ChangedFiles
          /\ \A f \in OnDisk \ ChangedFiles :
                ResourcesOf(manifest, f) = ResourcesOf(old_manifest, f)
    /\ (pc = "return" /\ old_manifest # None /\ prev.manifest # None) =>
          \A f \in OnDisk \ ChangedFiles :
              {AsParsed(r) : r \in ResourcesOf(manifest, f)}
                  = {AsParsed(r) : r \in ResourcesOf(prev.manifest, f)}

C7_Witness ==
    /\ pc = "return"
    /\ old_manifest # None
    /\ prev.manifest # None
    /\ ParsedFiles = {"s.yml"}
    /\ ChangedFiles = {"s.yml"}
    /\ \A f \in Files \ {"s.yml"} : ResourcesOf(manifest, f) # {}

\* what the parsers make of the current content of file f
FreshResourcesOf(f) ==
    UNION {Range(ParseFile(cls, f, content[f]).nodes)
              \cup Range(ParseFile(cls, f, content[f]).sources)
              \cup Range(ParseFile(cls, f, content[f]).macros) : cls \in FileParsers(f)}

ItemsOf(f) == {item \in AllItems : item.file = f}

AllResources(m) ==
    {m.nodes[id] : id \in DOMAIN m.nodes}
        \cup {m.sources[id] : id \in DOMAIN m.sources}
        \cup {m.macros[id] : id \in DOMAIN m.macros}

\* C8: after the parse phase the resources of each file are either all the
\* cached ones (hash equal) or all from a fresh parse of the current content;
\* the manifest holds no other resource, so none of an old version of a file.
C8_FileReplacedAsAWhole ==
    ParsePhaseOver =>
        /\ \A f \in Files :
              IF content[f] = "absent"
              THEN (\A g \in OnDisk : SearchKey(g) # SearchKey(f)) =>
                      ResourcesOf(manifest, f) = {}
              ELSE IF Reusable(f)
              THEN /\ ItemsOf(f) \subseteq trace.reused
                   /\ ResourcesOf(manifest, f) = ResourcesOf(old_manifest, f)
              ELSE /\ ItemsOf(f) \subseteq trace.parsed
                   /\ ResourcesOf(manifest, f) = FreshResourcesOf(f)
        /\ AllResources(manifest) = UNION {ResourcesOf(manifest, f) : f \in Files}

C8_Witness ==
    /\ ParsePhaseOver
    /\ old_manifest # None
    /\ content["s.yml"] = "v2"
    /\ old_manifest.files[SearchKey("s.yml")].checksum = FileHash("v1")
    /\ "test.root.T2" \in DOMAIN old_manifest.nodes
    /\ "test.root.T2" \notin DOMAIN manifest.nodes
    /\ Reusable("a.sql")

\* C9: a completed load that follows a completed load with no change in between,
\* partial parsing enabled, returns a manifest equal to the first in every
\* resource, depends_on included, and took every file from the cache.
C9_IdempotentReuse ==
    (pc = "done" /\ prev.unchanged /\ PartialParseEnabled /\ ~hist.dirty) =>
        /\ returned.nodes = prev.manifest.nodes
        /\ returned.node_order = prev.manifest.node_order
        /\ returned.sources = prev.manifest.sources
        /\ returned.macros = prev.manifest.macros
        /\ returned.files = prev.manifest.files
        /\ trace.parsed = {}
        /\ trace.reused = AllItems

C9_Witness ==
    /\ pc = "done"
    /\ prev.unchanged
    /\ PartialParseEnabled
    /\ ~hist.dirty
    /\ trace.reused = AllItems
    /\ \E id \in DOMAIN returned.nodes : Len(returned.nodes[id].depends_on) > 0

\* the targets of a node's source mentions, then of its ref mentions, resolved
\* in manifest m
RECURSIVE TargetsOf(_, _, _, _)
TargetsOf(m, node, mentions, IsRef) ==
    IF mentions = <<>> THEN <<>>
    ELSE LET x == Head(mentions)
             t == IF IsRef
                  THEN resolve_ref(m, x[Len(x)], IF Len(x) = 2 THEN x[1] ELSE "",
                                   node.package_name)
                  ELSE resolve_source(m, x[1], x[2], node.package_name)
         IN  (IF t.kind = "found" THEN <<t.unique_id>> ELSE <<>>)
                 \o TargetsOf(m, node, Tail(mentions), IsRef)

ResolvedEdges(m, node) ==
    TargetsOf(m, node, node.sources, FALSE) \o TargetsOf(m, node, node.refs, TRUE)

\* C10: the source, ref and docs passes start only when every package has been
\* parsed, a completed load has run each of them once whatever the number of
\* cache hits, and the edges of every node are the ones this run resolved: no
\* node has an edge before the source pass, none keeps one from the cache.
C10_PassesAlwaysRun ==
    /\ pc \in {"sources", "refs", "docs"} =>
          /\ pkg = Len(Packages)
          /\ todo = <<>>
          /\ Handled = AllItems
    /\ (Running /\ trace.passes = <<>>) =>
          \A id \in DOMAIN manifest.nodes : manifest.nodes[id].depends_on = <<>>
    /\ pc \in {"return", "done"} =>
          /\ trace.passes = <<"sources", "refs", "docs">>
          /\ \A id \in DOMAIN manifest.nodes :
                /\ manifest.nodes[id].depends_on = ResolvedEdges(manifest, manifest.nodes[id])
                /\ manifest.nodes[id].description = "rendered"

C10_Witness ==
    /\ pc = "done"
    /\ trace.parsed # {}
    /\ trace.reused # {}
    /\ returned.nodes["model.root.A"].depends_on = <<"source.root.raw.events">>
    /\ returned.nodes["model.root.B"].depends_on = <<"model.dep.X">>

\* the run was aborted by a resolution pass or by the post-load check
AbortedAfterLoad == pc = "fatal" /\ trace.error \in {"sources", "refs", "uniqueness"}

\* a resource as the parsers leave it: no edges, description not rendered
Unresolved(r) ==
    /\ r.description = "raw"
    /\ r.resource_type \notin {"source", "macro"} => r.depends_on = <<>>

C13_WriteFailureNotFatal == ~(pc = "fatal" /\ trace.error = "write")

\* two distinct nodes of one name or of one relation
SameNameOrRelation(a, b) ==
    /\ a.unique_id # b.unique_id
    /\ a.name = b.name \/ RelationOf(a) = RelationOf(b)

\* C28: get_full_manifest returns nothing while it runs and nothing when a
\* step raised; the manifest it returns has every file of every package and
\* of the macro pass handled, its sources patched, the three passes run in
\* order, its descriptions rendered and no two refable nodes colliding.
C28_NoPartialResult ==
    /\ Running => returned = None
    /\ pc = "fatal" <=> trace.error # "none"
    /\ pc = "fatal" => returned = None
    /\ returned # None =>
          /\ pc = "done"
          /\ returned = manifest
          /\ pkg = Len(Packages)
          /\ ~hist.dirty => Handled = AllItems
          /\ \A id \in DOMAIN returned.sources : returned.sources[id].patched
          /\ trace.passes = <<"sources", "refs", "docs">>
          /\ \A id \in DOMAIN returned.nodes : returned.nodes[id].description = "rendered"
          /\ \A a, b \in {n \in {returned.nodes[id] : id \in DOMAIN returned.nodes} : n.resource_type \in Refable} :
                ~SameNameOrRelation(a, b)

\* a run aborted by the post-load check after an earlier run had returned a
\* manifest
C28_Witness ==
    /\ pc = "fatal"
    /\ trace.error = "uniqueness"
    /\ trace.passes = <<"sources", "refs", "docs">>
    /\ returned = None
    /\ prev.manifest # None

----------------------------------------------------------------------------
(* Claims about the resolution passes, checked under SpecResolve *)

\* update_manifest is running or has run (no dynamic node yet)
InUpdate == trace.node = ""

Called(pass, id, mention) ==
    \E i \in DOMAIN trace.calls : trace.calls[i] = Call(pass, id, mention)

\* the nodes a pass visits and the exposures, as records
Visited(m, pass) ==
    {m.nodes[id] : id \in {n \in DOMAIN m.nodes :
                              pass = "refs" \/ m.nodes[n].resource_type # "source"}}
        \cup {m.exposures[id] : id \in DOMAIN m.exposures}

MentionsOf(r, pass) == IF pass = "refs" THEN r.refs ELSE r.sources

\* every mention of the kind of the pass, of every resource, has been resolved
PassComplete(pass) ==
    \A r \in Visited(manifest, pass) :
        \A k \in 1..Len(MentionsOf(r, pass)) :
            Called(pass, r.unique_id, MentionsOf(r, pass)[k])

NodeComplete(pass) ==
    LET r == manifest.nodes[trace.node]
    IN  \A k \in 1..Len(MentionsOf(r, pass)) : Called(pass, r.unique_id, MentionsOf(r, pass)[k])

SomeCall(pass) == \E i \in DOMAIN trace.calls : trace.calls[i].pass = pass

\* C11: the source pass over every node and every exposure is over before the
\* ref pass resolves its first ref, and the docs are rendered only after the
\* ref pass is over; process_node keeps the same order for its one node.
C11_SourcesThenRefsThenDocs ==
    /\ \A i, j \in DOMAIN trace.calls :
          (i < j /\ trace.calls[i].pass = "refs") => trace.calls[j].pass = "refs"
    /\ (InUpdate /\ (pc = "refs" \/ SomeCall("refs"))) =>
          /\ PassComplete("sources")
          /\ trace.passes # <<>> /\ trace.passes[1] = "sources"
    /\ (InUpdate /\ (pc = "docs" \/ \E id \in DOMAIN manifest.nodes :
                                        manifest.nodes[id].description = "rendered")) =>
          /\ PassComplete("refs")
          /\ Len(trace.passes) >= 2 /\ trace.passes[2] = "refs"
    /\ (~InUpdate /\ (pc = "node_refs" \/ SomeCall("refs"))) =>
          /\ NodeComplete("sources")
          /\ trace.passes # <<>> /\ trace.passes[1] = "sources"
    /\ (~InUpdate /\ (pc = "node_docs"
                      \/ manifest.nodes[trace.node].description = "rendered")) =>
          /\ NodeComplete("refs")
          /\ Len(trace.passes) >= 2 /\ trace.passes[2] = "refs"

\* process_node has rendered a node that mentions a source and a ref, in a
\* manifest whose exposure had both resolved by update_manifest
C11_Witness ==
    /\ pc = "node_done"
    /\ SomeCall("sources") /\ SomeCall("refs")
    /\ manifest.nodes[trace.node].description = "rendered"
    /\ Len(manifest.exposures["exposure.root.E"].depends_on) = 2
    /\ Len(manifest.nodes["test.root.T"].depends_on) = 2

NodesOf(m) == {m.nodes[id] : id \in DOMAIN m.nodes}

\* the ref pass is over for node a: process_refs has returned, or a is the
\* dynamic node and process_node is past its refs, or a was resolved before
\* the dynamic node came
RefsResolvedFor(a) ==
    IF InUpdate THEN pc \in {"docs", "done"}
    ELSE a.unique_id # trace.node \/ pc \in {"node_docs", "node_done"}

\* a mentions b by a ref: by its name from the same package, or by package
\* and name
RefersTo(a, b) ==
    \E k \in 1..Len(a.refs) :
        \/ a.refs[k] = <<b.name>> /\ a.package_name = b.package_name
        \/ a.refs[k] = <<b.package_name, b.name>>

\* C14: a ref edge goes from the mentioning node to its target: when B refs
\* the enabled model A, A's id is in B.depends_on after the ref pass; B's id
\* gets into A.depends_on only if A mentions B; a node without refs and
\* sources has no edges.
C14_EdgeFromMentionToTarget ==
    /\ \A a, b \in NodesOf(manifest) :
          (RefsResolvedFor(a) /\ RefersTo(a, b) /\ b.resource_type \in Refable)
              => b.unique_id \in Range(a.depends_on)
    /\ \A a, b \in NodesOf(manifest) :
          b.unique_id \in Range(a.depends_on) =>
              \E k \in 1..Len(a.refs) :
                  ValidArity(a.refs[k]) /\ a.refs[k][Len(a.refs[k])] = b.name
    /\ \A a \in NodesOf(manifest) :
          (a.refs = <<>> /\ a.sources = <<>>) => a.depends_on = <<>>

\* B refs A and A mentions nothing: the edge B -> A and no edge A -> B
C14_Witness ==
    /\ InUpdate /\ pc = "done"
    /\ manifest.nodes["model.root.A"].refs = <<>>
    /\ manifest.nodes["model.root.A"].sources = <<>>
    /\ manifest.nodes["model.root.A"].depends_on = <<>>
    /\ manifest.nodes["model.root.B"].refs = << <<"A">> >>
    /\ manifest.nodes["model.root.B"].depends_on = <<"model.root.A">>

\* the node or exposure of that id
ResourceById(m, id) == IF id \in DOMAIN m.nodes THEN m.nodes[id] ELSE m.exposures[id]

\* what the mention of resource r resolves to in manifest m
ResolveMention(m, r, pass, mention) ==
    IF pass = "refs"
    THEN resolve_ref(m, RefArgs(mention).name, RefArgs(mention).package, r.package_name)
    ELSE resolve_source(m, mention[1], mention[2], r.package_name)

\* r has a mention of the kind of the pass that resolves to no enabled target
HasUnresolved(m, r, pass) ==
    \E k \in 1..Len(MentionsOf(r, pass)) :
        /\ pass = "refs" => ValidArity(r.refs[k])
        /\ ResolveMention(m, r, pass, MentionsOf(r, pass)[k]).kind # "found"

\* the pass is over without an exception for resource r
PassOverFor(r, pass) ==
    IF InUpdate
    THEN pc \in (IF pass = "sources" THEN {"refs", "docs", "done"} ELSE {"docs", "done"})
    ELSE \/ r.unique_id # trace.node
         \/ pc \in (IF pass = "sources" THEN {"node_refs", "node_docs", "node_done"}
                    ELSE {"node_docs", "node_done"})

\* C15: an unresolved (missing or disabled) ref or source mention of a
\* resource that is not a test aborts the pass with an error naming the
\* resource, the target asked for and whether it was disabled; no run gets
\* past the pass with such a mention.
C15_UnresolvedMentionIsFatal ==
    /\ \A pass \in {"sources", "refs"} :
          \A r \in Visited(manifest, pass) :
              (r.resource_type # "test" /\ HasUnresolved(manifest, r, pass))
                  => ~PassOverFor(r, pass)
    /\ trace.error.kind = "target_not_found" =>
          LET r == ResourceById(manifest, trace.error.node)
              found == ResolveMention(manifest, r, trace.error.pass, trace.error.target)
          IN  /\ pc = "fatal"
              /\ r.resource_type # "test"
              /\ trace.error.target \in Range(MentionsOf(r, trace.error.pass))
              /\ found.kind # "found"
              /\ trace.error.disabled = (found = Disabled)

\* the exposure refs a model that exists only disabled: the ref pass aborts
\* and reports the target as disabled
C15_Witness ==
    /\ pc = "fatal"
    /\ trace.error = TargetNotFound("refs", "exposure.root.E", <<"X">>, TRUE)
    /\ manifest.nodes["model.root.B"].depends_on = <<"model.root.A">>

\* the edges the mentions of r call for: the targets of its resolved mentions,
\* of the passes that are over for r (over) or of both passes
EdgesDue(m, r, over) ==
    {ResolveMention(m, r, pk[1], MentionsOf(r, pk[1])[pk[2]]).unique_id :
        pk \in {qk \in {"sources", "refs"} \X (1..(Len(r.refs) + Len(r.sources))) :
                   /\ over => PassOverFor(r, qk[1])
                   /\ qk[2] <= Len(MentionsOf(r, qk[1]))
                   /\ qk[1] = "refs" => ValidArity(r.refs[qk[2]])
                   /\ ResolveMention(m, r, qk[1], MentionsOf(r, qk[1])[qk[2]]).kind = "found"}}

\* the nodes of the active graph
ActiveNodes(m) == {id \in DOMAIN m.nodes : m.nodes[id].enabled}

Tests(m) == {r \in NodesOf(m) : r.resource_type = "test"}

HasBadRef(r) == \E k \in 1..Len(r.refs) : Len(r.refs[k]) \notin {1, 2}

\* C17: a ref of an arity other than 1 and 2 aborts the ref pass with the
\* internal error, whether a node, a test or an exposure holds it; it is
\* never skipped and never handed to the lookup.
C17_BadArityIsInternalError ==
    /\ \A r \in Visited(manifest, "refs") : HasBadRef(r) => ~PassOverFor(r, "refs")
    /\ \A i \in DOMAIN trace.calls :
          trace.calls[i].pass = "refs" => Len(trace.calls[i].mention) \in {1, 2}
    /\ (trace.error.kind = "target_not_found" /\ trace.error.pass = "refs") =>
          Len(trace.error.target) \in {1, 2}
    /\ trace.error.kind = "internal" =>
          LET r == ResourceById(manifest, trace.error.node)
          IN  /\ pc = "fatal"
              /\ trace.error.got \notin {1, 2}
              /\ \E k \in 1..Len(r.refs) : Len(r.refs[k]) = trace.error.got

\* the ref pass aborted on a test whose ref has three parts
C17_Witness ==
    /\ pc = "fatal"
    /\ trace.error = InternalException("test.root.T", 3)
    /\ \E i \in DOMAIN trace.calls : trace.calls[i].resource = "model.root.B"

\* the enabled refable nodes of that name in that package
Candidates(m, name, p) ==
    {x \in NodesOf(m) : x.name = name /\ x.package_name = p /\ x.resource_type \in Refable}

\* the targets of that name among the edges of r
EdgesNamed(m, r, name) ==
    {x \in NodesOf(m) : x.unique_id \in Range(r.depends_on) /\ x.name = name}

\* the packages a bare name is looked up in, for a resource of package p
LookupOrder(p) == <<p>> \o Dependencies(p)

\* C18: a ref of two parts is looked up in the named package only; a ref of
\* one part in the package of the mentioning resource, then in the declared
\* dependencies of that package in their order; the first package that holds
\* the name gives the target, and several holders are no error.
C18_RefLookupOrder ==
    /\ \A r \in Visited(manifest, "refs") :
          PassOverFor(r, "refs") =>
              \A k \in 1..Len(r.refs) :
                  LET ref == r.refs[k]
                      order == LookupOrder(r.package_name)
                      hits == {i \in 1..Len(order) :
                                  Candidates(manifest, ref[1], order[i]) # {}}
                  IN  /\ Len(ref) = 2 =>
                            EdgesNamed(manifest, r, ref[2]) = Candidates(manifest, ref[2], ref[1])
                      /\ Len(ref) = 1 =>
                            EdgesNamed(manifest, r, ref[1]) =
                                IF hits = {} THEN {}
                                ELSE Candidates(manifest, ref[1],
                                                order[CHOOSE i \in hits : \A j \in hits : i <= j])
    /\ (trace.error.kind = "target_not_found" /\ trace.error.pass = "refs") =>
          LET r == ResourceById(manifest, trace.error.node)
              ref == trace.error.target
              searched == IF Len(ref) = 2 THEN {ref[1]} ELSE Range(LookupOrder(r.package_name))
          IN  \A p \in searched : Candidates(manifest, ref[Len(ref)], p) = {}

\* model B refs X by its bare name; the root package has no X, both
\* dependencies have one: the edge goes to the X of the first dependency,
\* while the test, asking for A, gets the A of its own package
C18_Witness ==
    /\ InUpdate /\ pc = "done"
    /\ manifest.nodes["model.root.B"].refs = << <<"X">> >>
    /\ {"model.dep.X", "model.lib.X"} \subseteq DOMAIN manifest.nodes
    /\ "model.root.X" \notin DOMAIN manifest.nodes
    /\ manifest.nodes["model.root.B"].depends_on = <<"model.dep.X">>

\* the ids of the resources on the disabled side of a manifest
DisabledIds(m) == Ids(m.disabled) \cup DOMAIN m._disabled

ActiveIds(m) == DOMAIN m.nodes \cup DOMAIN m.sources

\* C19 as stated: no resource is both disabled and in the active mapping,
\* those disabled by a resolution pass included.
C19_NoDisabledResourceIsActive ==
    /\ DisabledIds(manifest) \cap ActiveIds(manifest) = {}
    /\ \A id \in DOMAIN manifest.nodes : manifest.nodes[id].enabled

\* C19 (amended): the disabled list and the active nodes/sources mapping stay
\* disjoint, because update_manifest and the passes move nothing between
\* them: the disabled list is what the parsers recorded, and a node that a
\* pass disables stays in the active mapping with its enabled flag cleared.
C19_PassesMoveNothingBetweenPartitions ==
    /\ DisabledIds(manifest) \cap ActiveIds(manifest) = {}
    /\ manifest._disabled = prev._disabled
    /\ Range(manifest.disabled) =
          IF pc = "patch" THEN {}
          ELSE UNION {Range(prev._disabled[id]) : id \in DOMAIN prev._disabled}
    /\ DOMAIN manifest.sources = DOMAIN prev.sources
    /\ DOMAIN manifest.nodes =
          DOMAIN prev.nodes \cup (IF InUpdate THEN {} ELSE {trace.node})
    /\ \A r \in NodesOf(manifest) :
          ~r.enabled => \E pass \in {"sources", "refs"} : HasUnresolved(manifest, r, pass)

\* update_manifest has returned with a test that the ref pass disabled: the
\* test is in manifest.nodes and not in the disabled list, which holds the
\* disabled model the test asked for
C19_Witness ==
    /\ InUpdate /\ pc = "done"
    /\ ~manifest.nodes["test.root.T"].enabled
    /\ manifest.nodes["test.root.T"].refs = << <<"X">> >>
    /\ "model.dep.X" \in Ids(manifest.disabled)
    /\ "test.root.T" \notin DisabledIds(manifest)

\* C20: once the passes are over without error, every node that is not a
\* source and every exposure has in depends_on the id of the target of each
\* of its source and ref mentions that resolves, and every id the passes
\* put there is the target of one of its own mentions.
C20_EdgesComplete ==
    \A r \in Visited(manifest, "sources") :
        /\ EdgesDue(manifest, r, TRUE) \subseteq Range(r.depends_on)
        /\ Range(r.depends_on) \subseteq EdgesDue(manifest, r, FALSE)

\* update_manifest has returned; the exposure has the edges of its source and
\* of its ref, model A that of its source
C20_Witness ==
    /\ InUpdate /\ pc = "done"
    /\ manifest.exposures["exposure.root.E"].depends_on =
          <<"source.root.raw.events", "model.root.A">>
    /\ manifest.nodes["model.root.A"].depends_on = <<"source.root.raw.events">>
    /\ manifest.nodes["model.root.B"].depends_on = <<"model.root.A", "model.lib.X">>

\* the resources of the manifest that carry edges: nodes and exposures
EveryResource(m) == NodesOf(m) \cup {m.exposures[id] : id \in DOMAIN m.exposures}

\* C21: no resource's depends_on.nodes ever holds the resource's own unique
\* id, whatever the resource mentions, a ref to its own name included.
C21_NoSelfEdge ==
    \A r \in EveryResource(manifest) :
        \A k \in DOMAIN r.depends_on : r.depends_on[k] # r.unique_id

IsPrefix(s, t) == Len(s) <= Len(t) /\ SubSeq(t, 1, Len(s)) = s

\* C29: from the start of the source pass on, every step of the resolver
\* keeps every resource and only appends to its depends_on.nodes: no edge is
\* removed, also when a later mention of the resource fails to resolve.
C29_EdgesOnlyAdded ==
    [][/\ \A id \in DOMAIN manifest.nodes :
             /\ id \in DOMAIN manifest'.nodes
             /\ IsPrefix(manifest.nodes[id].depends_on, manifest'.nodes[id].depends_on)
       /\ \A id \in DOMAIN manifest.exposures :
             /\ id \in DOMAIN manifest'.exposures
             /\ IsPrefix(manifest.exposures[id].depends_on,
                         manifest'.exposures[id].depends_on)]_vars

\* the load failed on the second ref of model B after its first ref was
\* resolved, and the test keeps the edge the source pass gave it
C29_Witness ==
    /\ pc = "fatal"
    /\ trace.error.kind = "target_not_found"
    /\ trace.error.node = "model.root.B"
    /\ manifest.nodes["model.root.B"].depends_on = <<"model.root.A">>
    /\ manifest.nodes["test.root.T"].depends_on = <<"source.root.raw.events">>

----------------------------------------------------------------------------
(* Specification SpecCheck: _check_resource_uniqueness on a loaded manifest, *)
(* one turn of its loop at a time.                                           *)

\* the nodes a loaded manifest can hold, by unique id
CheckIds == <<"model.root.A", "model.root.B", "seed.dep.A", "analysis.root.A", "test.root.B">>

\* the aliases the project configuration can give a node
Aliases(id) ==
    CASE id = "model.root.A" -> {"A", "C"}
      [] id = "model.root.B" -> {"B", "A"}
      [] id = "seed.dep.A" -> {"A", "C"}
      [] id = "analysis.root.A" -> {"A"}
      [] id = "test.root.B" -> {"B"}

CheckedNode(id, alias) ==
    LET node == CASE id = "model.root.A" -> ParsedNode(id, "model", "root", "A", "v1", <<>>, <<>>)
                  [] id = "model.root.B" -> ParsedNode(id, "model", "root", "B", "v1", <<>>, <<>>)
                  [] id = "seed.dep.A" -> ParsedNode(id, "seed", "dep", "A", "v1", <<>>, <<>>)
                  [] id = "analysis.root.A" ->
                       ParsedNode(id, "analysis", "root", "A", "v1", <<>>, <<>>)
                  [] id = "test.root.B" -> ParsedNode(id, "test", "root", "B", "v1", <<>>, <<>>)
    IN  [node EXCEPT !.alias = alias]

Reverse(seq) == [i \in 1..Len(seq) |-> seq[Len(seq) + 1 - i]]

\* the manifest of the nodes of the given ids, inserted in the given order
LoadedManifest(order, alias) ==
    LET nodes == [i \in 1..Len(order) |-> CheckedNode(order[i], alias[order[i]])]
    IN  [EmptyManifest(CurrentVersion, None) EXCEPT
            !.nodes = WithAll(EmptyMap, nodes),
            !.node_order = order]

InitCheck ==
    /\ config = None
    /\ content = None
    /\ artifact = None
    /\ old_manifest = None
    /\ mpr = None
    /\ loaded_file_cache = None
    /\ pkg = 0
    /\ returned = None
    /\ hist = None
    /\ prev = None
    /\ \E present \in SUBSET Range(CheckIds), backwards \in BOOLEAN :
          \E alias \in [present -> UNION {Aliases(id) : id \in present}] :
              /\ \A id \in present : alias[id] \in Aliases(id)
              /\ LET order == SelectSeq(CheckIds, LAMBDA id : id \in present)
                 IN  manifest = LoadedManifest(IF backwards THEN Reverse(order) ELSE order,
                                               alias)
    /\ todo = manifest.node_order
    /\ trace = NothingSeen
    /\ pc = "check"

CheckFrame ==
    UNCHANGED <<config, content, artifact, manifest, old_manifest, mpr, loaded_file_cache,
                pkg, returned, prev, hist>>

\* one turn of the loop over manifest.nodes.items()
UniquenessTurn ==
    /\ pc = "check"
    /\ todo # <<>>
    /\ trace' = CheckNode(trace, manifest.nodes[Head(todo)])
    /\ pc' = IF trace'.error.kind # "none" THEN "fatal" ELSE pc
    /\ todo' = Tail(todo)
    /\ CheckFrame

\* the loop is over: _check_resource_uniqueness returns
UniquenessDone ==
    /\ pc = "check"
    /\ todo = <<>>
    /\ pc' = "checked"
    /\ UNCHANGED <<todo, trace>>
    /\ CheckFrame

NextCheck ==
    \/ UniquenessTurn
    \/ UniquenessDone

SpecCheck == InitCheck /\ [][NextCheck]_vars

----------------------------------------------------------------------------
(* Claims about the post-load check, checked under SpecCheck *)

RefableNodes(m) == {n \in NodesOf(m) : n.resource_type \in Refable}

Collide(a, b) ==
    /\ a.unique_id # b.unique_id
    /\ a.name = b.name \/ RelationOf(a) = RelationOf(b)

\* C27: the check aborts exactly when two refable nodes have the same name or
\* the same relation, the error names two such nodes, and a node that is not
\* refable is never recorded for comparison.
C27_UniquenessOfRefableNodes ==
    /\ pc = "checked" =>
          /\ \A a, b \in RefableNodes(manifest) : ~Collide(a, b)
          /\ trace.error = NoConflict
    /\ pc = "fatal" =>
          /\ trace.error.kind \in {"duplicate_resource_name", "ambiguous_alias"}
          /\ \E a, b \in RefableNodes(manifest) :
                /\ a.unique_id = trace.error.first
                /\ b.unique_id = trace.error.second
                /\ a.unique_id # b.unique_id
                /\ trace.error.kind = "duplicate_resource_name" => a.name = b.name
                /\ trace.error.kind = "ambiguous_alias" =>
                      /\ RelationOf(a) = RelationOf(b)
                      /\ trace.error.relation = RelationOf(a)
    /\ pc \in {"checked", "fatal"} => trace.error = _check_resource_uniqueness(manifest)
    /\ \A k \in DOMAIN trace.names :
          manifest.nodes[trace.names[k]].resource_type \in Refable
    /\ \A k \in DOMAIN trace.aliases :
          manifest.nodes[trace.aliases[k]].resource_type \in Refable

\* two models render to one relation under different names, next to an
\* analysis of the name of one of them
C27_Witness ==
    /\ pc = "fatal"
    /\ trace.error.kind = "ambiguous_alias"
    /\ "analysis.root.A" \in DOMAIN manifest.nodes
    /\ {trace.error.first, trace.error.second} = {"model.root.A", "model.root.B"}

----------------------------------------------------------------------------
(* Specification SpecFiles: the calls of _get_file of one run, from the     *)
(* macro pass to the end of load(), on trees in which a macro file of a     *)
(* dependency may have the search key of a macro file of the root package.  *)

InitFiles ==
    /\ config = [flag |-> "unset", project |-> "on",
                 version |-> CurrentVersion, vars |-> 1, profile |-> 1,
                 declarations |-> [p \in PackageNames |-> 1]]
    /\ content \in [Files -> {"v1", "v2", "absent"}]
    /\ \A f \in Files : content[f] \in Texts(f)
    /\ artifact = Absent
    /\ manifest = EmptyManifest(config.version, build_manifest_state_check(config))
    /\ old_manifest = None
    /\ mpr = None
    /\ loaded_file_cache = EmptyMap
    /\ todo = MacroItems(content)
    /\ pkg = 0
    /\ pc = "macros"
    /\ trace = NewTrace(FALSE, "none")
    /\ returned = None
    /\ prev = [manifest |-> None, unchanged |-> FALSE]
    /\ hist = [runs |-> 1, edits |-> 0, dirty |-> FALSE]

NextFiles ==
    \/ ParseWithCache
    \/ MacrosDone
    \/ ParseProject
    \/ LoadDone

SpecFiles == InitFiles /\ [][NextFiles]_vars

----------------------------------------------------------------------------
(* Claims about the file cache, checked under SpecFiles *)

\* the step is a call of parse_with_cache, and so of _get_file
GetFileStep == pc \in {"macros", "parse"} /\ todo # <<>>

\* C25: since the file cache was last cleared, load_file has been called at
\* most once for a search key; a call of _get_file for a key the cache lacks
\* loads the file and stores the block, and a call for a key the cache holds,
\* of whatever parser, returns the stored block and loads nothing.
C25_LoadedOncePerKey ==
    /\ [](\A i, j \in DOMAIN trace.loads : i # j => trace.loads[i] # trace.loads[j])
    /\ [][GetFileStep =>
            LET f == Head(todo).file
                key == SearchKey(f)
            IN  IF key \in DOMAIN loaded_file_cache
                THEN /\ trace'.block = loaded_file_cache[key]
                     /\ loaded_file_cache' = loaded_file_cache
                     /\ trace'.loads = trace.loads
                ELSE /\ trace'.block = load_file(f, content[f])
                     /\ DOMAIN loaded_file_cache' = DOMAIN loaded_file_cache \cup {key}
                     /\ loaded_file_cache'[key] = trace'.block
                     /\ \A k \in DOMAIN loaded_file_cache :
                           loaded_file_cache'[k] = loaded_file_cache[k]
                     /\ trace'.loads = Append(trace.loads, key)]_vars

\* the analysis parser got the block the model parser had loaded for x.sql
C25_Witness ==
    /\ pc = "parse"
    /\ [file |-> "x.sql", parser |-> "ModelParser"] \in Handled
    /\ [file |-> "x.sql", parser |-> "AnalysisParser"] \in Handled
    /\ trace.loads = <<"x.sql">>
    /\ trace.block.path = "x.sql"

\* C26: the block _get_file returns for a path of package P was loaded from a
\* file of P, in the macro pass over all packages as in every package's own
\* parse pass.
C26_BlockIsOfThePackage ==
    [][GetFileStep => FilePackage(trace'.block.path) = FilePackage(Head(todo).file)]_vars

----------------------------------------------------------------------------
(* Specification SpecSelect: TestSelector.expand_selection on a finished    *)
(* manifest, then incorporate_greedy_nodes called with a candidate pool,    *)
(* one candidate at a time, and called again with its own result until a   *)
(* call adds nothing.                                                       *)

\* the ids a test of the project can depend on, and those a second test can
TestTargets == {"model.root.A", "model.root.B", "source.root.raw.events"}

SecondTargets == {{"model.root.A"}, {"model.root.C"}, {"model.root.A", "model.root.C"},
                  {"model.root.B"}}

WithEdges(node, targets) == [node EXCEPT !.depends_on = SeqOf(targets)]

\* a finished manifest: models A, B and C (C selects from A), two tests, a
\* source and an exposure of model A
SelectManifest(d1, d2) ==
    LET nodes == <<ParsedNode("model.root.A", "model", "root", "A", "v1", <<>>, <<>>),
                   ParsedNode("model.root.B", "model", "root", "B", "v1", <<>>, <<>>),
                   WithEdges(ParsedNode("model.root.C", "model", "root", "C", "v1",
                                        << <<"A">> >>, <<>>), {"model.root.A"}),
                   WithEdges(ParsedNode("test.root.T1", "test", "root", "T1", "v1",
                                        <<>>, <<>>), d1),
                   WithEdges(ParsedNode("test.root.T2", "test", "root", "T2", "v1",
                                        <<>>, <<>>), d2)>>
        exposure == [ParsedExposure("exposure.root.E", "root", "E", << <<"A">> >>, <<>>)
                        EXCEPT !.depends_on = <<"model.root.A">>]
    IN  [EmptyManifest(CurrentVersion, None) EXCEPT
            !.nodes = WithAll(EmptyMap, nodes),
            !.node_order = [i \in 1..Len(nodes) |-> nodes[i].unique_id],
            !.sources = WithAll(EmptyMap, <<RawEvents>>),
            !.exposures = WithAll(EmptyMap, <<exposure>>),
            !.exposure_order = <<exposure.unique_id>>]

\* the manifest when the node had a further mention that the ref pass could
\* not resolve: the mention is in refs without an edge, the node is disabled
PassDisabled(m, id) == Disable([m EXCEPT !.nodes[id].refs = Append(@, <<"Z">>)], id)

\* the nodes of the graph the linker builds: every node, source and exposure
GraphNodes(m) == DOMAIN m.nodes \cup DOMAIN m.sources \cup DOMAIN m.exposures

\* the ids with an edge to id in the graph: what id depends on
GraphPredecessors(m, id) ==
    IF id \in DOMAIN m.nodes THEN Range(m.nodes[id].depends_on)
    ELSE IF id \in DOMAIN m.exposures THEN Range(m.exposures[id].depends_on)
    ELSE {}

\* Graph.select_successors: the direct successors of the members of selected
select_successors(m, selected) ==
    {v \in GraphNodes(m) : GraphPredecessors(m, v) \cap selected # {}}

expand_selection_GreedyAlways(m, selected, greedy) ==
    LET selected_tests == {unique_id \in select_successors(m, selected) :
                              /\ unique_id \in DOMAIN m.nodes
                              /\ m.nodes[unique_id].resource_type = "test"}
    IN  [results |-> selected \cup selected_tests, selected_tests |-> selected_tests]

expand_selection_Satisfied(m, selected, greedy) ==
    LET selected_tests == {unique_id \in select_successors(m, selected) :
                              /\ unique_id \in DOMAIN m.nodes
                              /\ m.nodes[unique_id].resource_type = "test"}
    IN  [results |-> IF greedy
                     THEN selected \cup {t \in selected_tests :
                                            Range(m.nodes[t].depends_on) \subseteq selected}
                     ELSE selected,
         selected_tests |-> selected_tests]

\* TestSelector.expand_selection: the pair (results, selected_tests)
expand_selection(m, selected, greedy) ==
    LET selected_tests == {unique_id \in select_successors(m, selected) :
                              /\ unique_id \in DOMAIN m.nodes
                              /\ m.nodes[unique_id].resource_type = "test"}
    IN  [results |-> IF greedy THEN selected \cup selected_tests ELSE selected,
         selected_tests |-> selected_tests]

IncorporateNode_AnyDependency(m, selected, unique_id) ==
    IF unique_id \in DOMAIN m.nodes
       /\ Range(m.nodes[unique_id].depends_on) \cap selected # {}
    THEN selected \cup {unique_id}
    ELSE selected

IncorporateNode_Never(m, selected, unique_id) == selected

\* one turn of the loop of incorporate_greedy_nodes: selected after it
IncorporateNode(m, selected, unique_id) ==
    IF unique_id \in DOMAIN m.nodes
       /\ Range(m.nodes[unique_id].depends_on) \subseteq selected
    THEN selected \cup {unique_id}
    ELSE selected

\* The set objects of a sequence of calls: heap[o] holds the members object o
\* has now, and arguments and results are objects.

ExpandObjects_CopyAlways(heap, m, selected, greedy) ==
    LET r == expand_selection(m, heap[selected], greedy)
    IN  [heap |-> heap \o <<r.selected_tests, r.results>>,
         results |-> Len(heap) + 2, selected_tests |-> Len(heap) + 1]

\* expand_selection on objects: selected_tests = set() is a new object, and
\* results is the new object selected | selected_tests with greedy and the
\* argument selected without
ExpandObjects(heap, m, selected, greedy) ==
    LET r == expand_selection(m, heap[selected], greedy)
    IN  IF greedy
        THEN [heap |-> heap \o <<r.selected_tests, r.results>>,
              results |-> Len(heap) + 2, selected_tests |-> Len(heap) + 1]
        ELSE [heap |-> Append(heap, r.selected_tests),
              results |-> selected, selected_tests |-> Len(heap) + 1]

\* selected.add(unique_id) under the test of the loop: the object is changed
IncorporateObject(heap, m, selected, unique_id) ==
    [heap EXCEPT ![selected] = IncorporateNode(m, @, unique_id)]

\* the selections a caller starts from
Selections == SUBSET {"model.root.A", "model.root.B", "model.root.C", "source.root.raw.events"}

\* a candidate pool other than the tests expand_selection found
WidePool == {"model.root.C", "test.root.T1", "test.root.T2", "exposure.root.E"}

\* selected, greedy: the arguments of expand_selection; results, tests: what it
\* returned; pool, before, working: the candidate pool, the selection the
\* running call of incorporate_greedy_nodes was given and the selection as it
\* is now; first: the selection the first call was given; adding: the calls
\* that added something; heap: the set objects; at: the objects that are the
\* argument selected, the results and selected_tests returned, the pool and
\* the selection given to incorporate_greedy_nodes and the set it returned
\* (0: none yet)
SelectTrace(selected, greedy) ==
    [selected |-> selected, greedy |-> greedy, results |-> {}, tests |-> {},
     pool |-> {}, first |-> {}, before |-> {}, working |-> {}, adding |-> 0, calls |-> 0,
     heap |-> <<selected>>,
     at |-> [selected |-> 1, results |-> 0, tests |-> 0, pool |-> 0, working |-> 0,
             returned |-> 0]]

InitSelect ==
    /\ config = None
    /\ content = None
    /\ artifact = None
    /\ old_manifest = None
    /\ mpr = None
    /\ loaded_file_cache = None
    /\ pkg = 0
    /\ returned = None
    /\ hist = None
    /\ prev = None
    /\ \E d1 \in SUBSET TestTargets \ {{}}, d2 \in SecondTargets, unresolved \in BOOLEAN :
          manifest = IF unresolved THEN PassDisabled(SelectManifest(d1, d2), "test.root.T2")
                     ELSE SelectManifest(d1, d2)
    /\ \E selected \in Selections, greedy \in BOOLEAN : trace = SelectTrace(selected, greedy)
    /\ todo = {}
    /\ pc = "expand"

SelectFrame ==
    UNCHANGED <<config, content, artifact, manifest, old_manifest, mpr, loaded_file_cache,
                pkg, returned, prev, hist>>

\* expand_selection(selected, greedy)
ExpandSelection ==
    /\ pc = "expand"
    /\ LET returned_sets == expand_selection(manifest, trace.selected, trace.greedy)
           r == ExpandObjects(trace.heap, manifest, trace.at.selected, trace.greedy)
       IN  trace' = [trace EXCEPT !.results = returned_sets.results,
                                  !.tests = returned_sets.selected_tests,
                                  !.heap = r.heap,
                                  !.at.results = r.results,
                                  !.at.tests = r.selected_tests]
    /\ pc' = "expanded"
    /\ UNCHANGED todo
    /\ SelectFrame

\* the first call of incorporate_greedy_nodes, with the selection and either
\* the tests expand_selection returned or another pool
FirstIncorporate ==
    /\ pc = "expanded"
    /\ \E wide \in BOOLEAN :
          LET heap == IF wide THEN Append(trace.heap, WidePool) ELSE trace.heap
              pool == IF wide THEN Len(heap) ELSE trace.at.tests
          IN  /\ trace' = [trace EXCEPT !.pool = heap[pool], !.first = trace.results,
                                        !.before = trace.results,
                                        !.working = trace.results, !.calls = 1,
                                        !.heap = heap, !.at.pool = pool,
                                        !.at.working = trace.at.results]
              /\ todo' = heap[pool]
    /\ pc' = "pass"
    /\ SelectFrame

\* one turn of the loop over greedy_nodes, a set: in whatever order
IncorporateTurn ==
    /\ pc = "pass"
    /\ \E unique_id \in todo :
          /\ LET heap == IncorporateObject(trace.heap, manifest, trace.at.working, unique_id)
             IN  trace' = [trace EXCEPT !.working = heap[trace.at.working], !.heap = heap]
          /\ todo' = todo \ {unique_id}
    /\ UNCHANGED pc
    /\ SelectFrame

\* the call returns selected and it added something: the caller calls again
\* with the result and the same pool
IncorporateAgain ==
    /\ pc = "pass"
    /\ todo = {}
    /\ trace.working # trace.before
    /\ trace' = [trace EXCEPT !.adding = @ + 1, !.before = trace.working, !.calls = @ + 1,
                              !.at.returned = trace.at.working]
    /\ todo' = trace.heap[trace.at.pool]
    /\ UNCHANGED pc
    /\ SelectFrame

\* the call returns selected and it added nothing: the selection is stable
IncorporateStable ==
    /\ pc = "pass"
    /\ todo = {}
    /\ trace.working = trace.before
    /\ pc' = "stable"
    /\ trace' = [trace EXCEPT !.at.returned = trace.at.working]
    /\ UNCHANGED todo
    /\ SelectFrame

NextSelect ==
    \/ ExpandSelection
    \/ FirstIncorporate
    \/ IncorporateTurn
    \/ IncorporateAgain
    \/ IncorporateStable

SpecSelect == InitSelect /\ [][NextSelect]_vars

\* the caller goes on calling as long as a call adds something
FairSelect == SpecSelect /\ WF_vars(NextSelect)

----------------------------------------------------------------------------
(* Claims about the selection of tests, checked under SpecSelect *)

Expanded == pc # "expand"

\* what the node of the id depends on
DependsOn(id) == Range(manifest.nodes[id].depends_on)

\* the tests of manifest.nodes with an edge from a member of S
CheckSuccessors(S) ==
    {u \in DOMAIN manifest.nodes :
        /\ manifest.nodes[u].resource_type = "test"
        /\ \E n \in S : n \in DependsOn(u)}

\* C22: expand_selection(S, greedy) returns (R, T) with T the direct successors
\* of S that are tests of manifest.nodes, R = S without greedy and R = S \cup T
\* with it; a successor that is no test or not in manifest.nodes is not in T.
C22_ExpandSelection ==
    Expanded =>
        /\ trace.tests = CheckSuccessors(trace.selected)
        /\ ~trace.greedy => trace.results = trace.selected
        /\ trace.greedy => trace.results = trace.selected \cup trace.tests
        /\ \A u \in trace.tests :
              u \in DOMAIN manifest.nodes /\ manifest.nodes[u].resource_type = "test"

\* model A selected without greedy: its tests are reported, the selection is
\* returned as it was, and model C and the exposure, successors too, are in
\* neither
C22_Witness ==
    /\ pc = "expanded"
    /\ ~trace.greedy
    /\ trace.selected = {"model.root.A"}
    /\ trace.results = {"model.root.A"}
    /\ trace.tests = {"test.root.T1"}
    /\ {"model.root.C", "exposure.root.E"} \subseteq
          select_successors(manifest, trace.selected)

\* C23 as stated: with greedy the first element is S and exactly the test
\* successors all of whose dependencies are in the selection; a test successor
\* with a dependency outside the selection is not in it.
C23_GreedyAddsSatisfiedChecksOnly ==
    (Expanded /\ trace.greedy) =>
        /\ trace.selected \subseteq trace.results
        /\ trace.results \ trace.selected =
              {t \in trace.tests : DependsOn(t) \subseteq trace.selected}
        /\ \A t \in trace.tests :
              ~(DependsOn(t) \subseteq trace.selected) => t \notin trace.results

\* C23 (amended): with greedy the first element is S and every test successor
\* of S, also one with a dependency outside the selection.
C23_GreedyAddsEveryCheckSuccessor ==
    (Expanded /\ trace.greedy) =>
        /\ trace.selected \subseteq trace.results
        /\ trace.results \ trace.selected = trace.tests \ trace.selected
        /\ \A t \in trace.tests : t \in trace.results

\* greedy expansion of model A took in a test that depends on model B as well
C23_Witness ==
    /\ pc = "expanded"
    /\ trace.greedy
    /\ trace.selected = {"model.root.A"}
    /\ "test.root.T1" \in trace.results
    /\ "model.root.B" \in DependsOn("test.root.T1")

InIncorporate == pc \in {"pass", "stable"}

\* the running call of incorporate_greedy_nodes has gone through its pool
CallOver == InIncorporate /\ todo = {}

\* C24: the selection of a call of incorporate_greedy_nodes only grows, by
\* members of the pool that are in manifest.nodes and whose dependencies are
\* all in the selection; a candidate with a dependency outside it is not
\* added. So a call with a model alone and the tests of the model adds exactly
\* the tests that depend on nothing else.
C24_IncorporateAddsSatisfiedOnly ==
    /\ InIncorporate =>
          /\ trace.before \subseteq trace.working
          /\ \A u \in trace.working \ trace.before :
                /\ u \in trace.pool
                /\ u \in DOMAIN manifest.nodes
                /\ DependsOn(u) \subseteq trace.working
          /\ \A u \in trace.pool \cap DOMAIN manifest.nodes :
                ~(DependsOn(u) \subseteq trace.working) => u \notin trace.working \ trace.before
    /\ (CallOver /\ trace.calls = 1 /\ trace.pool = trace.tests) =>
          trace.working =
              trace.first \cup {t \in trace.tests : DependsOn(t) \subseteq trace.first}

\* model A alone: the test of A alone is added, the test of A and the source
\* is left out
C24_Witness ==
    /\ CallOver
    /\ trace.calls = 1
    /\ ~trace.greedy
    /\ trace.selected = {"model.root.A"}
    /\ trace.pool = {"test.root.T1", "test.root.T2"}
    /\ DependsOn("test.root.T1") = {"model.root.A", "source.root.raw.events"}
    /\ trace.working = {"model.root.A", "test.root.T2"}

\* C30: a call goes through the pool once; a caller that calls again with the
\* result and the same pool as long as a call adds something comes to a call
\* that adds nothing after at most |pool| calls that added something, and the
\* selection then holds every candidate whose dependencies are all in it.
C30_StableWithinPoolSizeCalls ==
    /\ [](InIncorporate => /\ todo \subseteq trace.pool
                           /\ trace.adding <= Cardinality(trace.pool))
    /\ [](pc = "stable" =>
             \A u \in trace.pool \cap DOMAIN manifest.nodes :
                 DependsOn(u) \subseteq trace.working => u \in trace.working)
    /\ <>(pc = "stable")

\* two calls added something: the test of model C came in only after the call
\* that added model C
C30_Witness ==
    /\ pc = "stable"
    /\ trace.adding = 2
    /\ trace.calls = 3
    /\ DependsOn("test.root.T2") = {"model.root.C"}
    /\ {"model.root.C", "test.root.T2"} \subseteq trace.working \ trace.first

----------------------------------------------------------------------------
(* Further claims about the loader, checked under Spec and SpecFiles *)

\* the CLI flag when set, else the project option when set, else off
EnabledByPrecedence ==
    \/ config.flag = "on"
    \/ config.flag = "unset" /\ config.project = "on"

\* C38: the saved manifest is read only if partial parsing is enabled by the
\* CLI flag when set, else by the project option when set, else not at all;
\* with neither set no cache is used and every file is parsed.
C38_PartialParsePrecedence ==
    /\ Constructed =>
          /\ trace.read <=> (EnabledByPrecedence /\ artifact # Absent)
          /\ ~EnabledByPrecedence => old_manifest = None
    /\ (Running /\ ~EnabledByPrecedence) => trace.reused = {}
    /\ (Running /\ config.flag = "unset" /\ config.project = "unset") =>
          /\ old_manifest = None
          /\ ~trace.read
          /\ ParsePhaseOver => trace.parsed = AllItems

\* the flag turns partial parsing off against the project option, with an
\* artifact the check would accept on disk
C38_Witness ==
    /\ Constructed
    /\ config.flag = "off"
    /\ config.project = "on"
    /\ artifact.kind = "pickle"
    /\ ~CacheCheck.raised /\ CacheCheck.result
    /\ old_manifest = None
    /\ ~trace.read

\* the resource-kind parsers in the order of the claim
KindOrder ==
    <<"ModelParser", "SnapshotParser", "AnalysisParser", "DataTestParser",
      "HookParser", "SeedParser", "DocumentationParser", "SchemaParser">>

KindIndex(cls) == CHOOSE i \in 1..Len(KindOrder) : KindOrder[i] = cls

PackageIndex(p) == CHOOSE i \in 1..Len(Packages) : Packages[i] = p

\* the items handled by the parsers of load(), not by the macro pass
ParsedByLoad == {item \in Handled : item.parser # "MacroParser"}

\* the files of a package the parsers of load() find
LoadItemsOf(p) ==
    {item \in AllItems : item.parser # "MacroParser" /\ FilePackage(item.file) = p}

\* C31: load() takes the packages in the order given and one at a time; in a
\* package the parsers run in the order model, snapshot, analysis, data test,
\* hook, seed, documentation, schema, each over all its files before the next
\* starts; a step handles one file with one parser.
C31_ParsingIsOrdered ==
    /\ [](pc = "parse" =>
            /\ \A item \in ParsedByLoad : PackageIndex(FilePackage(item.file)) <= pkg
            /\ \A i \in 1..Len(Packages) : i < pkg => LoadItemsOf(Packages[i]) \subseteq Handled
            /\ \A i \in DOMAIN todo :
                  /\ todo[i].parser \in Range(KindOrder)
                  /\ FilePackage(todo[i].file) = Packages[pkg]
                  /\ todo[i] \notin ParsedByLoad
                  /\ \A j \in DOMAIN todo :
                        i < j => KindIndex(todo[i].parser) <= KindIndex(todo[j].parser)
                  /\ \A item \in ParsedByLoad :
                        FilePackage(item.file) = Packages[pkg] =>
                            KindIndex(item.parser) <= KindIndex(todo[i].parser)
            /\ pkg >= 1 => LoadItemsOf(Packages[pkg]) \subseteq ParsedByLoad \cup Range(todo))
    /\ [][(pc = "parse" /\ pc' = "parse") =>
            /\ pkg' \in {pkg, pkg + 1}
            /\ pkg' = pkg + 1 => (todo = <<>> /\ Handled' = Handled)
            /\ pkg' = pkg => (todo # <<>> /\ Handled' = Handled \cup {Head(todo)}
                                          /\ todo' = Tail(todo))]_vars

\* in package dep the model parser has handled x.sql and the analysis parser
\* has it still to do, the root package being done with models and schema files
C31_Witness ==
    /\ pc = "parse"
    /\ pkg = PackageIndex("dep")
    /\ todo = <<[file |-> "x.sql", parser |-> "AnalysisParser"]>>
    /\ [file |-> "x.sql", parser |-> "ModelParser"] \in Handled
    /\ [file |-> "s.yml", parser |-> "SchemaParser"] \in Handled
    /\ [file |-> "a.sql", parser |-> "ModelParser"] \in Handled

----------------------------------------------------------------------------
(* Further claims about the resolution passes, checked under SpecResolve *)

\* C32: no target id occurs twice in the depends_on.nodes of a resource, also
\* when the resource mentions a target more than once.
C32_DependsOnIsASet ==
    \A r \in EveryResource(manifest) :
        \A i, j \in DOMAIN r.depends_on : i # j => r.depends_on[i] # r.depends_on[j]

----------------------------------------------------------------------------
(* Specification SpecReport: one call of invalid_ref_fail_unless_test or of   *)
(* invalid_source_fail_unless_test, for an unresolved mention of a resource  *)
(* of a manifest as update_manifest hands it to the passes, under either     *)
(* warnings-as-errors setting.                                               *)

ReportTrace(id, pass, mention, disabled, warn_error, report) ==
    [resource |-> id, pass |-> pass, mention |-> mention, disabled |-> disabled,
     warn_error |-> warn_error, channel |-> report.channel, raised |-> report.raised]

InitReport ==
    /\ config = None
    /\ content = None
    /\ artifact = None
    /\ old_manifest = None
    /\ mpr = None
    /\ loaded_file_cache = None
    /\ pkg = 0
    /\ returned = None
    /\ hist = None
    /\ prev = None
    /\ \E a \in AMentions, b \in BMentions, t \in OtherMentions, e \in OtherMentions,
          x \in XPlacements, s \in SourceStates :
          manifest = update_manifest(ParsedManifest(a, b, t, e, x, s))
    /\ pc = "report"
    /\ todo = <<>>
    /\ trace = None

ReportFrame ==
    UNCHANGED <<config, content, artifact, manifest, old_manifest, mpr, loaded_file_cache,
                todo, pkg, returned, prev, hist>>

ReportResources(m) ==
    {m.nodes[id] : id \in DOMAIN m.nodes} \cup {m.exposures[id] : id \in DOMAIN m.exposures}

\* invalid_ref_fail_unless_test(node, target_model_name, target_model_package, disabled)
ReportRef ==
    /\ pc = "report"
    /\ \E resource \in ReportResources(manifest), warn_error \in BOOLEAN :
          \E i \in DOMAIN resource.refs :
             LET ref == resource.refs[i]
                 args == RefArgs(ref)
                 target == resolve_ref(manifest, args.name, args.package,
                                       resource.package_name)
             IN  /\ ValidArity(ref)
                 /\ target.kind # "found"
                 /\ trace' = ReportTrace(resource.unique_id, "refs", ref, target = Disabled,
                                         warn_error,
                                         ReportUnresolved(resource, target = Disabled,
                                                          warn_error))
    /\ pc' = "reported"
    /\ ReportFrame

\* invalid_source_fail_unless_test(node, target_name, target_table_name, disabled)
ReportSource ==
    /\ pc = "report"
    /\ \E resource \in ReportResources(manifest), warn_error \in BOOLEAN :
          \E i \in DOMAIN resource.sources :
             LET mention == resource.sources[i]
                 target == resolve_source(manifest, mention[1], mention[2],
                                          resource.package_name)
             IN  /\ target.kind # "found"
                 /\ trace' = ReportTrace(resource.unique_id, "sources", mention,
                                         target = Disabled, warn_error,
                                         ReportUnresolved(resource, target = Disabled,
                                                          warn_error))
    /\ pc' = "reported"
    /\ ReportFrame

NextReport ==
    \/ ReportRef
    \/ ReportSource

SpecReport == InitReport /\ [][NextReport]_vars

----------------------------------------------------------------------------
(* Claims about the reporting of unresolved mentions, checked under SpecReport *)

ReportedForCheck ==
    /\ pc = "reported"
    /\ trace.resource \in DOMAIN manifest.nodes
    /\ manifest.nodes[trace.resource].resource_type = "test"

\* C33: for a validation check with an unresolved mention, a disabled target is
\* reported on the debug log only and never raises, whatever the
\* warnings-as-errors setting; a target that is not found is passed to
\* warn_or_error, and a raise comes from warn_or_error only.
C33_ChannelByDisabledOrMissing ==
    ReportedForCheck =>
        /\ trace.disabled => trace.channel = "debug" /\ ~trace.raised
        /\ ~trace.disabled => trace.channel = "warn_or_error"
        /\ trace.raised => trace.channel = "warn_or_error" /\ trace.warn_error

C33_Witness ==
    /\ ReportedForCheck
    /\ trace.disabled
    /\ trace.warn_error
    /\ trace.channel = "debug"
    /\ ~trace.raised

----------------------------------------------------------------------------
(* A further claim about failing passes, checked under SpecResolve *)

\* C34: a step of the source or ref pass that aborts on an unresolved mention
\* of a non-check node leaves that node's enabled flag and the
\* depends_on.nodes of every resource as they were before the step.
C34_FatalLeavesManifestUnchanged ==
    [][(/\ pc' = "fatal"
        /\ trace'.error.kind = "target_not_found"
        /\ trace'.error.node \in DOMAIN manifest.nodes)
       => /\ manifest'.nodes[trace'.error.node].enabled
                = manifest.nodes[trace'.error.node].enabled
          /\ \A id \in DOMAIN manifest.nodes :
                manifest'.nodes[id].depends_on = manifest.nodes[id].depends_on
          /\ \A id \in DOMAIN manifest.exposures :
                manifest'.exposures[id].depends_on = manifest.exposures[id].depends_on]_vars

----------------------------------------------------------------------------
(* Further claims about the selection of tests, checked under SpecSelect *)

\* the tests the resolution passes marked disabled
DisabledChecks ==
    {id \in DOMAIN manifest.nodes :
        manifest.nodes[id].resource_type = "test" /\ ~manifest.nodes[id].enabled}

\* C35: a test that the resolution passes marked disabled is never among the
\* candidates expand_selection returns and is never added to the working
\* selection by incorporate_greedy_nodes.
C35_DisabledCheckNeverSelected ==
    /\ Expanded => trace.tests \cap DisabledChecks = {}
    /\ pc \in {"pass", "stable"} => (trace.working \ trace.first) \cap DisabledChecks = {}

\* the orders in which a loop over the set can visit its members
VisitingOrders(S) ==
    {order \in [1..Cardinality(S) -> S] : \A i, j \in DOMAIN order : order[i] = order[j] => i = j}

\* the loop of incorporate_greedy_nodes over greedy_nodes visited in the order
RECURSIVE IncorporateInOrder(_, _, _)
IncorporateInOrder(m, selected, order) ==
    IF order = <<>> THEN selected
    ELSE IncorporateInOrder(m, IncorporateNode(m, selected, Head(order)), Tail(order))

\* C36: what a call of incorporate_greedy_nodes returns is what the loop gives
\* for the selection and the pool of the call in any visiting order of the
\* pool, also when a candidate depends on another candidate of the pool.
C36_ResultIndependentOfOrder ==
    CallOver =>
        \A order \in VisitingOrders(trace.pool) :
            trace.working = IncorporateInOrder(manifest, trace.before, order)

\* C37: expand_selection leaves the manifest and its argument as they were and
\* returns a new set with greedy, the argument itself without; a turn of
\* incorporate_greedy_nodes adds to the selection it was given, in place, and
\* leaves the pool and the manifest (so every depends_on.nodes) as they were,
\* and the call returns the set it was given.
C37_FrameOfSelection ==
    /\ [](Expanded => /\ trace.greedy => trace.at.results \notin {trace.at.selected,
                                                                  trace.at.tests}
                      /\ ~trace.greedy => trace.at.results = trace.at.selected)
    /\ [](trace.at.returned # 0 => trace.at.returned = trace.at.working)
    /\ [][/\ manifest' = manifest
          /\ pc = "expand" =>
                /\ trace'.heap[trace.at.selected] = trace.heap[trace.at.selected]
                /\ trace.greedy => trace'.at.results \notin DOMAIN trace.heap
          /\ pc = "pass" =>
                /\ trace'.at.working = trace.at.working
                /\ trace'.at.pool = trace.at.pool
                /\ trace.heap[trace.at.working] \subseteq trace'.heap[trace.at.working]
                /\ \A o \in DOMAIN trace.heap :
                      o # trace.at.working => trace'.heap[o] = trace.heap[o]]_vars

\* without greedy the selection given to expand_selection is the set that
\* incorporate_greedy_nodes returned, and it has grown by a test
C37_Witness ==
    /\ pc = "stable"
    /\ ~trace.greedy
    /\ trace.at.returned = trace.at.selected
    /\ trace.selected = {"model.root.A"}
    /\ trace.heap[trace.at.selected] = {"model.root.A", "test.root.T1"}
    /\ trace.heap[trace.at.pool] = {"test.root.T1", "test.root.T2"}

====
